---------------------------- MODULE Spec2Model ----------------------------
(***************************************************************************)
(* A model of porycon's map conversion: the binary metatile data of a map  *)
(* is turned into three background layers, either as individual 8x8 tiles  *)
(* (MapConverter.convert_map) or as deduplicated 16x16 half-metatile       *)
(* images with global tile ids and animation timelines                     *)
(* (MapConverter.convert_map_with_metatiles).                              *)
(*                                                                         *)
(* Conventions.  A Python list is a sequence (index i of the code is       *)
(* index i+1 here), a dict is a function (an insertion-ordered dict that   *)
(* the code iterates is a sequence of entries), a tuple is a tuple.  A     *)
(* tile reference is <<tile_id, flip_flags, palette_index>>.  An image is  *)
(* represented by what decides its raw bytes: a half-metatile image is     *)
(* the 4-tuple of its quadrants, a quadrant is <<gfx, flip>>.  The two     *)
(* tileset names of a layout are taken to be different strings.            *)
(***************************************************************************)
EXTENDS Integers, Sequences, FiniteSets, TLC

(* ---------------------------------------------------------------------- *)
(* Program constants                                                       *)
(* ---------------------------------------------------------------------- *)
NUM_METATILES_IN_PRIMARY == 512
NUM_TILES_IN_PRIMARY_VRAM == 512
NUM_TILES_PER_METATILE == 8
METATILE_WIDTH == 2
METATILE_HEIGHT == 2
METATILE_ID_MASK == 1023
FLIP_HORIZONTAL == 1
FLIP_VERTICAL == 2
NORMAL == 0
COVERED == 1
SPLIT == 2

(* ---------------------------------------------------------------------- *)
(* Bounds of the model                                                     *)
(* ---------------------------------------------------------------------- *)
\* layer-type values read from the attribute table range over 0..MaxLayerType
MaxLayerType == 3
\* a map is MapCells metatiles wide and one metatile high
MapCells == 2

primary_tileset == "primary"
secondary_tileset == "secondary"

(* ---------------------------------------------------------------------- *)
(* Python helpers                                                          *)
(* ---------------------------------------------------------------------- *)
\* d.get(k, default)
Get(d, k, default) == IF k \in DOMAIN d THEN d[k] ELSE default

\* d[k] = v
Put(d, k, v) == [x \in (DOMAIN d) \cup {k} |-> IF x = k THEN v ELSE d[x]]

EmptyDict == [x \in {} |-> 0]

\* lst[a:b] of a list (0-based, end exclusive, clipped to the list)
Slice(lst, a, b) ==
    LET hi == IF b < Len(lst) THEN b ELSE Len(lst)
    IN  IF a >= hi THEN <<>> ELSE [i \in 1..(hi - a) |-> lst[a + i]]

Range(s) == {s[i] : i \in DOMAIN s}

Zeros(n) == [i \in 1..n |-> 0]

\* a & b on non-negative integers
RECURSIVE BitAnd(_, _)
BitAnd(a, b) ==
    IF a = 0 \/ b = 0 THEN 0
    ELSE (a % 2) * (b % 2) + 2 * BitAnd(a \div 2, b \div 2)

\* a >> n
ShiftRight(a, n) == a \div (2 ^ n)

\* the bytes of 16-bit words written low byte first
LittleEndian(words) ==
    [j \in 1..(2 * Len(words)) |->
        IF j % 2 = 1 THEN words[(j + 1) \div 2] % 256 ELSE words[j \div 2] \div 256]

\* a reader's result: status "ok" with the value returned, "None" for a
\* conversion given up, or the name of the exception raised to the caller
Result(status, value, w, h) == [status |-> status, value |-> value, width |-> w, height |-> h]

NoResult == Result("none", <<>>, 0, 0)

(* ---------------------------------------------------------------------- *)
(* metatile.py                                                             *)
(* ---------------------------------------------------------------------- *)
\* MetatileLayerType(v): the IntEnum constructor accepts only its members
\* and raises ValueError for every other value
LayerTypeValid(v) == v \in {NORMAL, COVERED, SPLIT}

extract_metatile_id(entry) == entry % (METATILE_ID_MASK + 1)

unpack_metatile_data(metatile_id, metatile_data) ==
    IF metatile_id < 0 \/ metatile_id * NUM_TILES_PER_METATILE >= Len(metatile_data)
    THEN Zeros(NUM_TILES_PER_METATILE)
    ELSE Slice(metatile_data, metatile_id * NUM_TILES_PER_METATILE,
               metatile_id * NUM_TILES_PER_METATILE + NUM_TILES_PER_METATILE)

unpack_metatile_data_with_attrs(metatile_id, metatile_data) ==
    IF metatile_id < 0 \/ metatile_id * NUM_TILES_PER_METATILE >= Len(metatile_data)
    THEN [i \in 1..NUM_TILES_PER_METATILE |-> <<0, 0, 0>>]
    ELSE Slice(metatile_data, metatile_id * NUM_TILES_PER_METATILE,
               metatile_id * NUM_TILES_PER_METATILE + NUM_TILES_PER_METATILE)

\* the result is <<bg3_tiles, bg2_tiles, bg1_tiles>>
split_metatile_to_layers(metatile_tiles, layer_type) ==
    LET bottom_tiles == Slice(metatile_tiles, 0, 4)
        top_tiles == Slice(metatile_tiles, 4, 8)
    IN  IF layer_type = NORMAL THEN <<Zeros(4), bottom_tiles, top_tiles>>
        ELSE IF layer_type = COVERED THEN <<bottom_tiles, top_tiles, Zeros(4)>>
        ELSE IF layer_type = SPLIT THEN <<bottom_tiles, Zeros(4), top_tiles>>
        ELSE <<Zeros(4), bottom_tiles, top_tiles>>

\* the half lists chosen for <<bg3, bg2, bg1>>, an unassigned layer gets []
LayerHalvesWithAttrs(metatile_tiles, layer_type) ==
    LET bottom_tiles == Slice(metatile_tiles, 0, 4)
        top_tiles == Slice(metatile_tiles, 4, 8)
    IN  IF layer_type = NORMAL THEN <<(<<>>), bottom_tiles, top_tiles>>
        ELSE IF layer_type = COVERED THEN <<bottom_tiles, top_tiles, (<<>>)>>
        ELSE IF layer_type = SPLIT THEN <<bottom_tiles, (<<>>), top_tiles>>
        ELSE <<(<<>>), bottom_tiles, top_tiles>>

\* create_tile_dict of convert_metatile_to_tile_layers_with_attrs:
\* (tile_x, tile_y) -> (tile_id, palette_index), non-empty tiles only
CreateTileDictWithAttrs(tiles_data, x, y) ==
    LET idxs == {i \in 0..3 : i < Len(tiles_data) /\ tiles_data[i + 1][1] # 0}
        posOf(i) == <<x * 2 + (i % 2), y * 2 + (i \div 2)>>
    IN  [p \in {posOf(i) : i \in idxs} |->
            LET i == CHOOSE j \in idxs : posOf(j) = p
            IN  <<tiles_data[i + 1][1], tiles_data[i + 1][3]>>]

convert_metatile_to_tile_layers_with_attrs(metatile_id, metatile_data, layer_type, x, y) ==
    LET halves == LayerHalvesWithAttrs(
                      unpack_metatile_data_with_attrs(metatile_id, metatile_data),
                      layer_type)
    IN  <<CreateTileDictWithAttrs(halves[1], x, y),
          CreateTileDictWithAttrs(halves[2], x, y),
          CreateTileDictWithAttrs(halves[3], x, y)>>

\* create_tile_dict of convert_metatile_to_tile_layers: all four positions
CreateTileDict(tiles, x, y) ==
    LET posOf(i) == <<x * METATILE_WIDTH + (i % 2), y * METATILE_HEIGHT + (i \div 2)>>
    IN  [p \in {posOf(i) : i \in 0..3} |->
            LET i == CHOOSE j \in 0..3 : posOf(j) = p IN tiles[i + 1]]

convert_metatile_to_tile_layers(metatile_id, metatile_data, layer_type, x, y) ==
    LET split == split_metatile_to_layers(
                     unpack_metatile_data(metatile_id, metatile_data), layer_type)
    IN  <<CreateTileDict(split[1], x, y),
          CreateTileDict(split[2], x, y),
          CreateTileDict(split[3], x, y)>>

(* ---------------------------------------------------------------------- *)
(* Inputs: the binary resources of one layout                              *)
(* ---------------------------------------------------------------------- *)
R(t) == <<t, 0, 0>>

\* metatiles.bin contents as decoded by read_metatiles_with_attributes:
\* the tables a layout may come with, <<primary table, secondary table>>
TableChoices ==
    { \* plain tiles; primary metatile 1 has byte-identical halves
      << <<R(5), R(5), R(5), R(5), R(6), R(6), R(6), R(6),
           R(5), R(5), R(5), R(5), R(5), R(5), R(5), R(5)>>,
         <<R(600), R(5), R(0), R(512), R(640), R(6), R(6), R(6)>> >>,
      \* tile 432 in the bottom half of one metatile and in the top half
      \* of another whose bottom half looks the same
      << <<R(432), R(5), R(5), R(5), R(6), R(6), R(6), R(6),
           R(5), R(5), R(5), R(5), R(432), R(433), R(6), R(6)>>,
         <<R(5), R(5), R(5), R(5), R(640), <<640, 1, 0>>, R(5), R(5)>> >>,
      \* animated tiles in both halves, an empty metatile, mixed banks
      << <<R(432), R(433), R(5), R(5), <<433, 2, 1>>, R(5), R(5), R(5),
           R(0), R(0), R(0), R(0), R(0), R(0), R(0), R(0)>>,
         <<R(432), R(600), R(512), R(5), R(640), R(600), R(600), R(600)>> >>,
      \* all four halves of the two primary metatiles look the same
      << <<R(432), R(5), R(5), R(5), R(5), R(5), R(5), R(5),
           R(5), R(5), R(5), R(5), R(432), R(5), R(5), R(5)>>,
         <<>> >>,
      \* the same animated tile in both halves of one metatile, which look
      \* the same; a second metatile animated in its top half only
      << <<R(432), R(5), R(5), R(5), R(432), R(5), R(5), R(5),
           R(5), R(5), R(5), R(5), R(433), R(6), R(6), R(6)>>,
         <<>> >>,
      \* metatiles.bin of the primary tileset missing, unreadable or empty
      << <<>>,
         <<R(600), R(5), R(0), R(512), R(640), R(6), R(6), R(6)>> >> }

\* map.bin entries: metatile 0 and 1 of the primary tileset, metatile 0 of
\* the secondary tileset (512); 1025 is metatile 1 with a collision bit
MapEntryChoices == {0, 1025, 512}

\* _get_max_tile_id returns None when tiles.png cannot be read
NoneVal == -1

MaxTileChoices == {NoneVal, 100, 1023}

VARIABLES
    pc,                    \* where the conversion stands
    map_entries,           \* map.bin, one row of MapCells entries
    primary_metatiles_with_attrs,
    secondary_metatiles_with_attrs,
    primary_attributes,    \* layer type of primary metatile i at index i+1
    secondary_attributes,
    \* convert_map
    bg3_data, bg2_data, bg1_data,
    used_primary_tiles, used_secondary_tiles,
    used_primary_tiles_with_palettes, used_secondary_tiles_with_palettes

tileVars == <<bg3_data, bg2_data, bg1_data, used_primary_tiles, used_secondary_tiles,
              used_primary_tiles_with_palettes, used_secondary_tiles_with_palettes>>

\* the files as they are on disk, and the layout's dimensions
VARIABLES
    file_data,             \* the bytes of map.bin (or of a metatile table)
    layout_width,          \* layout["width"]
    layout_height          \* layout["height"]

\* the caller of the converter
VARIABLES
    maps_converted         \* maps handed to this MapConverter before the current one

inputVars == <<map_entries, primary_metatiles_with_attrs, secondary_metatiles_with_attrs,
               primary_attributes, secondary_attributes,
               file_data, layout_width, layout_height, maps_converted>>

\* one call of a reader
VARIABLES
    read_op,               \* which reader was called
    read_out               \* what it returned or raised

readVars == <<read_op, read_out>>

\* the validation of the used-tile sets, applied once and once more
VARIABLES
    validate_in,           \* the used-tile sets before, and the two maximum tile IDs
    validate_out           \* the used-tile sets after each application

validateVars == <<validate_in, validate_out>>

\* one call of a function outside the two pipelines
VARIABLES
    call_in,               \* its arguments
    call_out               \* what it returned or raised

callVars == <<call_in, call_out>>

\* convert_map_with_metatiles
VARIABLES
    used_metatiles,        \* (metatile_id, tileset, layer_type) -> <<bottom_img, top_img>>
    metatile_to_gid,       \* (metatile_id, tileset, layer_type, is_top) -> GID
    tile_id_to_gids,       \* (tile_id, tileset) -> list of (layer_gid, metatile_key, tile_position)
    metatile_composition,  \* metatile_key -> its 8 tile references
    composition_order,     \* the keys of metatile_composition in insertion order
    image_to_gid,          \* image bytes -> GID
    next_gid,
    border_gids,           \* corner name -> GID
    layer_data_bg3, layer_data_bg2, layer_data_bg1,
    used_gids,
    alloc_log              \* history: one record per GID allocation request

gidVars == <<used_metatiles, metatile_to_gid, tile_id_to_gids, metatile_composition,
             composition_order, image_to_gid, next_gid, border_gids,
             layer_data_bg3, layer_data_bg2, layer_data_bg1, used_gids, alloc_log>>

VARIABLES
    all_anim_defs,         \* the animation definitions found for the two tilesets
    tileset_image,         \* the atlas: slot index (0-based) -> image
    current_tile_idx,      \* number of base images pasted into the atlas
    raw_animations,        \* the timelines in generation order
    animations,            \* the timelines returned (deduplicated)
    frame_reads            \* history: every frame lookup of a strip animation

animVars == <<all_anim_defs, tileset_image, current_tile_idx, raw_animations, animations,
              frame_reads>>

\* one call of add_used_tile_with_palette
VARIABLES
    route_in,              \* the arguments and the used-tile sets before the call
    route_out              \* the used-tile sets after the call

routeVars == <<route_in, route_out>>

\* a loader that accepts an empty primary metatile table
TilesetDataLoadedAlways(primary_table) == TRUE

\* "if not primary_metatiles_with_attrs: return None" (lines 894-896), and
\* "if not primary_metatiles or len(primary_metatiles) == 0: return None"
\* (lines 198-200)
TilesetDataLoaded(primary_table) == Len(primary_table) > 0

\* read_metatiles: the tile_id component of every reference
TileIdsOf(metatiles_with_attrs) ==
    [i \in 1..Len(metatiles_with_attrs) |-> metatiles_with_attrs[i][1]]

\* attributes.get(metatile_id, 0)
AttributeOf(attributes, metatile_id) ==
    IF metatile_id + 1 \in DOMAIN attributes THEN attributes[metatile_id + 1] ELSE 0

(* ---------------------------------------------------------------------- *)
(* MapConverter.convert_map (tile-grid mode)                               *)
(* ---------------------------------------------------------------------- *)
\* lines 237-245: <<tileset_name, metatile_id within that tileset>>
TilesetOfMetatile(metatile_id) ==
    IF metatile_id < NUM_METATILES_IN_PRIMARY
    THEN <<primary_tileset, metatile_id>>
    ELSE <<secondary_tileset, metatile_id - NUM_METATILES_IN_PRIMARY>>

\* MetatileProcessor.determine_tileset_for_tile:
\* <<tileset that holds the tile, tile id within that tileset>>
determine_tileset_for_tile(tile_id, current_tileset_name) ==
    IF current_tileset_name = primary_tileset THEN <<primary_tileset, tile_id>>
    ELSE IF tile_id < NUM_TILES_IN_PRIMARY_VRAM THEN <<primary_tileset, tile_id>>
    ELSE <<secondary_tileset, tile_id - NUM_TILES_IN_PRIMARY_VRAM>>

\* a router that sends tile 512 of a secondary metatile to the primary bank
add_used_tile_off_by_one(used, tile_id, palette_index, tileset_name_for_tile) ==
    IF tileset_name_for_tile = primary_tileset
       \/ tile_id <= NUM_TILES_IN_PRIMARY_VRAM
    THEN [used EXCEPT !.primary = @ \cup {tile_id},
                      !.primary_pal = @ \cup {<<tile_id, palette_index>>}]
    ELSE [used EXCEPT !.secondary = @ \cup {tile_id - NUM_TILES_IN_PRIMARY_VRAM},
                      !.secondary_pal = @ \cup {<<tile_id - NUM_TILES_IN_PRIMARY_VRAM,
                                                  palette_index>>}]

\* used is the record of the four used-tile sets
add_used_tile_with_palette(used, tile_id, palette_index, tileset_name_for_tile) ==
    IF tileset_name_for_tile = primary_tileset
    THEN [used EXCEPT !.primary = @ \cup {tile_id},
                      !.primary_pal = @ \cup {<<tile_id, palette_index>>}]
    ELSE IF tile_id < NUM_TILES_IN_PRIMARY_VRAM
         THEN [used EXCEPT !.primary = @ \cup {tile_id},
                           !.primary_pal = @ \cup {<<tile_id, palette_index>>}]
         ELSE [used EXCEPT !.secondary = @ \cup {tile_id - NUM_TILES_IN_PRIMARY_VRAM},
                           !.secondary_pal = @ \cup {<<tile_id - NUM_TILES_IN_PRIMARY_VRAM,
                                                       palette_index>>}]

EmptyUsed == [primary |-> {}, secondary |-> {}, primary_pal |-> {}, secondary_pal |-> {}]

InLayer(p, tile_width, tile_height) ==
    0 <= p[1] /\ p[1] < tile_width /\ 0 <= p[2] /\ p[2] < tile_height

\* a layer array indexed with the layer's height as the row length
ApplyTilesToLayerByHeight(data, tiles, tileset_name, tile_width, tile_height) ==
    [i \in DOMAIN data |->
        LET hits == {p \in DOMAIN tiles : InLayer(p, tile_width, tile_height)
                                          /\ p[2] * tile_height + p[1] = i - 1}
        IN  IF hits = {} THEN data[i]
            ELSE LET p == CHOOSE q \in hits : TRUE
                 IN  determine_tileset_for_tile(tiles[p][1], tileset_name)[2]]

\* lines 309-323: one "for (tx, ty), tile_data in bgN_tiles.items()" loop,
\* the layer array part
ApplyTilesToLayer(data, tiles, tileset_name, tile_width, tile_height) ==
    [i \in DOMAIN data |->
        LET hits == {p \in DOMAIN tiles : InLayer(p, tile_width, tile_height)
                                          /\ p[2] * tile_width + p[1] = i - 1}
        IN  IF hits = {} THEN data[i]
            ELSE LET p == CHOOSE q \in hits : TRUE
                 IN  determine_tileset_for_tile(tiles[p][1], tileset_name)[2]]

\* the same loop, the used-tile part
RECURSIVE AddUsedTiles(_, _, _)
AddUsedTiles(used, refs, tileset_name) ==
    IF refs = {} THEN used
    ELSE LET r == CHOOSE q \in refs : TRUE
         IN  AddUsedTiles(add_used_tile_with_palette(used, r[1], r[2], tileset_name),
                          refs \ {r}, tileset_name)

TilesInLayer(tiles, tile_width, tile_height) ==
    {tiles[p] : p \in {q \in DOMAIN tiles : InLayer(q, tile_width, tile_height)}}

\* the three dicts of one map cell, lines 247-273
CellTileLayers(metatile_id, tileset_name, layer_type, x, y) ==
    LET with_attrs == IF tileset_name = primary_tileset
                      THEN primary_metatiles_with_attrs
                      ELSE secondary_metatiles_with_attrs
        zeroPal(d) == [p \in DOMAIN d |-> <<d[p], 0>>]
    IN  IF Len(with_attrs) > 0
        THEN convert_metatile_to_tile_layers_with_attrs(
                 metatile_id, with_attrs, layer_type, x, y)
        ELSE LET simple == convert_metatile_to_tile_layers(
                               metatile_id, TileIdsOf(with_attrs), layer_type, x, y)
             IN  <<zeroPal(simple[1]), zeroPal(simple[2]), zeroPal(simple[3])>>

\* the loop over the cells x = from..width-1 of row 0, lines 230-355
RECURSIVE ConvertCells(_, _, _, _)
ConvertCells(st, x, width, height) ==
    IF x >= width THEN st
    ELSE
      LET owner == TilesetOfMetatile(extract_metatile_id(map_entries[x + 1]))
          tileset_name == owner[1]
          metatile_id == owner[2]
          attributes == IF tileset_name = primary_tileset
                        THEN primary_attributes ELSE secondary_attributes
          layer_type == AttributeOf(attributes, metatile_id)
          tw == width * 2
          th == height * 2
      IN  IF ~LayerTypeValid(layer_type) THEN [st EXCEPT !.raised = TRUE]
          ELSE
            LET t == CellTileLayers(metatile_id, tileset_name, layer_type, x, 0)
                u3 == AddUsedTiles(st.used, TilesInLayer(t[1], tw, th), tileset_name)
                u2 == AddUsedTiles(u3, TilesInLayer(t[2], tw, th), tileset_name)
                u1 == AddUsedTiles(u2, TilesInLayer(t[3], tw, th), tileset_name)
            IN  ConvertCells(
                    [st EXCEPT !.bg3 = ApplyTilesToLayer(@, t[1], tileset_name, tw, th),
                               !.bg2 = ApplyTilesToLayer(@, t[2], tileset_name, tw, th),
                               !.bg1 = ApplyTilesToLayer(@, t[3], tileset_name, tw, th),
                               !.used = u1],
                    x + 1, width, height)

\* lines 357-389: validation and repair of the used-tile sets
ValidateUsedTiles(used, primary_max_tile, secondary_max_tile) ==
    LET p1 == IF primary_max_tile # NoneVal
              THEN {tid \in used.primary : 0 <= tid /\ tid <= primary_max_tile}
              ELSE used.primary
        invalid_secondary == {tid \in used.secondary : tid > secondary_max_tile}
        misrouted == {tid \in invalid_secondary : tid < 512}
        moved == secondary_max_tile # NoneVal /\ invalid_secondary # {} /\ misrouted # {}
        p2 == IF moved THEN p1 \cup misrouted ELSE p1
        s1 == IF moved THEN used.secondary \ misrouted ELSE used.secondary
        s2 == IF secondary_max_tile # NoneVal /\ invalid_secondary # {}
              THEN {tid \in s1 : 0 <= tid /\ tid <= secondary_max_tile}
              ELSE s1
    IN  [used EXCEPT !.primary = p2, !.secondary = s2]

ConvertMap ==
    /\ pc = "start"
    /\ \E st \in {ConvertCells([bg3 |-> Zeros(Len(map_entries) * 2 * 2),
                                bg2 |-> Zeros(Len(map_entries) * 2 * 2),
                                bg1 |-> Zeros(Len(map_entries) * 2 * 2),
                                used |-> EmptyUsed, raised |-> FALSE],
                               0, Len(map_entries), 1)} :
        IF ~TilesetDataLoaded(primary_metatiles_with_attrs)
        THEN \* lines 198-200: return None
             /\ pc' = "tiles_aborted"
             /\ UNCHANGED tileVars
        ELSE IF st.raised
        THEN \* MetatileLayerType(layer_type_val) raised ValueError, line 249
             /\ pc' = "tiles_raised"
             /\ UNCHANGED tileVars
        ELSE \E primary_max_tile \in MaxTileChoices, secondary_max_tile \in MaxTileChoices :
             \E used \in {ValidateUsedTiles(st.used, primary_max_tile, secondary_max_tile)} :
                 /\ pc' = "tiles_done"
                 /\ bg3_data' = st.bg3
                 /\ bg2_data' = st.bg2
                 /\ bg1_data' = st.bg1
                 /\ used_primary_tiles' = used.primary
                 /\ used_secondary_tiles' = used.secondary
                 /\ used_primary_tiles_with_palettes' = used.primary_pal
                 /\ used_secondary_tiles_with_palettes' = used.secondary_pal
    /\ UNCHANGED <<callVars, inputVars, readVars, validateVars, routeVars, gidVars, animVars>>

\* what the tileset builder holds after lines 392-404: the used-tile sets of
\* the map just converted (the sets are scoped to one map's conversion)
RecordedUsedTiles ==
    [primary |-> used_primary_tiles, secondary |-> used_secondary_tiles,
     primary_pal |-> used_primary_tiles_with_palettes,
     secondary_pal |-> used_secondary_tiles_with_palettes]

(* ---------------------------------------------------------------------- *)
(* MapConverter.convert_map_with_metatiles (16x16 images and GIDs)         *)
(* ---------------------------------------------------------------------- *)
\* the pixels of the 8x8 tile with this id (combined primary/secondary id
\* space); different ids may hold the same pixels
Gfx(tile_id) ==
    CASE tile_id = 0 -> 0
      [] tile_id = 5 -> 1
      [] tile_id = 6 -> 2
      [] tile_id = 432 -> 1
      [] tile_id = 433 -> 2
      [] tile_id = 512 -> 3
      [] tile_id = 600 -> 3
      [] tile_id = 640 -> 1
      [] OTHER -> 4

\* MetatileRenderer.render_metatile: <<bottom_img, top_img>>
render_metatile(metatile_tiles) ==
    LET quadrant(ref) == IF ref[1] = 0 THEN <<0, 0>> ELSE <<Gfx(ref[1]), ref[2]>>
    IN  << [i \in 1..4 |-> quadrant(metatile_tiles[i])],
           [i \in 1..4 |-> quadrant(metatile_tiles[i + 4])] >>

\* MetatileProcessor.determine_tileset_for_metatile
determine_tileset_for_metatile(metatile_id) ==
    IF metatile_id < NUM_METATILES_IN_PRIMARY
    THEN <<primary_tileset, metatile_id>>
    ELSE <<secondary_tileset, metatile_id - NUM_METATILES_IN_PRIMARY>>

\* an allocator without deduplication
AllocGidAlwaysNew(i2g, ngid, bytes) ==
    [gid |-> ngid, image_to_gid |-> Put(i2g, bytes, ngid), next_gid |-> ngid + 1]

\* an allocator that starts counting at the wrong place: a novel image takes
\* the GID before next_gid
AllocGidFromZero(i2g, ngid, bytes) ==
    IF bytes \in DOMAIN i2g
    THEN [gid |-> i2g[bytes], image_to_gid |-> i2g, next_gid |-> ngid]
    ELSE [gid |-> ngid - 1, image_to_gid |-> Put(i2g, bytes, ngid - 1), next_gid |-> ngid + 1]

\* "if bytes in image_to_gid: gid = image_to_gid[bytes]
\*  else: gid = next_gid; image_to_gid[bytes] = gid; next_gid += 1"
AllocGid(i2g, ngid, bytes) ==
    IF bytes \in DOMAIN i2g
    THEN [gid |-> i2g[bytes], image_to_gid |-> i2g, next_gid |-> ngid]
    ELSE [gid |-> ngid, image_to_gid |-> Put(i2g, bytes, ngid), next_gid |-> ngid + 1]

LogEntry(site, bytes, i2g, ngid, a) ==
    [site |-> site, bytes |-> bytes, before_map |-> i2g, before_next |-> ngid,
     gid |-> a.gid, after_map |-> a.image_to_gid, after_next |-> a.next_gid]

\* lines 1079-1100: record the rendered halves of a new metatile key and
\* assign a GID to the bottom image, then to the top image
AssignHalfGids(acc, key, imgs, site) ==
    LET b == AllocGid(acc.image_to_gid, acc.next_gid, imgs[1])
        t == AllocGid(b.image_to_gid, b.next_gid, imgs[2])
    IN  [acc EXCEPT
            !.used_metatiles = Put(@, key, imgs),
            !.image_to_gid = t.image_to_gid,
            !.next_gid = t.next_gid,
            !.metatile_to_gid = Put(Put(@, <<key[1], key[2], key[3], FALSE>>, b.gid),
                                    <<key[1], key[2], key[3], TRUE>>, t.gid),
            !.alloc_log = @ \o <<LogEntry(site, imgs[1], acc.image_to_gid, acc.next_gid, b),
                                 LogEntry(site, imgs[2], b.image_to_gid, b.next_gid, t)>>]

\* the tile_id_to_gids entries of one metatile: for every position its
\* (layer_gid, metatile_key, tile_position) under (tile_id, tileset of the tile)
RECURSIVE AddTileGids(_, _, _, _, _, _)
AddTileGids(t2g, metatile_tiles, key, bottom_gid, top_gid, pos) ==
    IF pos >= NUM_TILES_PER_METATILE THEN t2g
    ELSE LET tile_id == metatile_tiles[pos + 1][1]
             tile_key == <<tile_id, determine_tileset_for_tile(tile_id, key[2])[1]>>
             entry == <<IF pos < 4 THEN bottom_gid ELSE top_gid, key, pos>>
         IN  AddTileGids(Put(t2g, tile_key, Get(t2g, tile_key, <<>>) \o <<entry>>),
                         metatile_tiles, key, bottom_gid, top_gid, pos + 1)

\* MetatileProcessor.process_single_metatile together with the merge of
\* its results in _process_metatiles (lines 972-985)
process_single_metatile(acc, actual_metatile_id, tileset_name) ==
    LET with_attrs == IF tileset_name = primary_tileset
                      THEN primary_metatiles_with_attrs
                      ELSE secondary_metatiles_with_attrs
        attributes == IF tileset_name = primary_tileset
                      THEN primary_attributes ELSE secondary_attributes
        layer_type_val == AttributeOf(attributes, actual_metatile_id)
        key == <<actual_metatile_id, tileset_name, layer_type_val>>
        start_idx == actual_metatile_id * NUM_TILES_PER_METATILE
        metatile_tiles == Slice(with_attrs, start_idx, start_idx + NUM_TILES_PER_METATILE)
    IN  IF key \in DOMAIN acc.used_metatiles
           \/ Len(metatile_tiles) # NUM_TILES_PER_METATILE
        THEN acc
        ELSE LET a == AssignHalfGids(acc, key, render_metatile(metatile_tiles), "map")
             IN  [a EXCEPT
                    !.tile_id_to_gids =
                        AddTileGids(@, metatile_tiles, key,
                                    a.metatile_to_gid[<<key[1], key[2], key[3], FALSE>>],
                                    a.metatile_to_gid[<<key[1], key[2], key[3], TRUE>>], 0),
                    !.metatile_composition = Put(@, key, metatile_tiles),
                    !.composition_order = @ \o <<key>>]

\* the loop of _process_metatiles over the cells of the map
RECURSIVE ProcessCells(_, _)
ProcessCells(acc, x) ==
    IF x >= Len(map_entries) THEN acc
    ELSE LET owner == determine_tileset_for_metatile(extract_metatile_id(map_entries[x + 1]))
         IN  \* bind the accumulator once before recursing
             LET nxt == process_single_metatile(acc, owner[2], owner[1])
             IN  ProcessCells(nxt, x + 1)

\* structures that are attributes of the converter, kept from the last map
LeftoverAcc ==
    [used_metatiles |-> used_metatiles, metatile_to_gid |-> metatile_to_gid,
     tile_id_to_gids |-> tile_id_to_gids, metatile_composition |-> metatile_composition,
     composition_order |-> composition_order, image_to_gid |-> image_to_gid,
     next_gid |-> next_gid, alloc_log |-> alloc_log, border_gids |-> border_gids,
     stopped |-> FALSE]

\* lines 932-938: the structures of one conversion, created empty by every call
EmptyAcc ==
    [used_metatiles |-> EmptyDict, metatile_to_gid |-> EmptyDict,
     tile_id_to_gids |-> EmptyDict, metatile_composition |-> EmptyDict,
     composition_order |-> <<>>, image_to_gid |-> EmptyDict, next_gid |-> 1,
     alloc_log |-> <<>>, border_gids |-> EmptyDict, stopped |-> FALSE]

ProcessMetatiles ==
    /\ pc = "start"
    /\ IF ~TilesetDataLoaded(primary_metatiles_with_attrs)
       THEN \* _load_tileset_data returns None, lines 894-896 and 1873-1874
            /\ pc' = "gid_aborted"
            /\ UNCHANGED gidVars
       ELSE \E acc \in {ProcessCells(EmptyAcc, 0)} :
            /\ pc' = "metatiles_done"
            /\ used_metatiles' = acc.used_metatiles
            /\ metatile_to_gid' = acc.metatile_to_gid
            /\ tile_id_to_gids' = acc.tile_id_to_gids
            /\ metatile_composition' = acc.metatile_composition
            /\ composition_order' = acc.composition_order
            /\ image_to_gid' = acc.image_to_gid
            /\ next_gid' = acc.next_gid
            /\ alloc_log' = acc.alloc_log
            /\ UNCHANGED <<border_gids, layer_data_bg3, layer_data_bg2, layer_data_bg1,
                           used_gids>>
    /\ UNCHANGED <<callVars, inputVars, readVars, validateVars, routeVars, tileVars, animVars>>

\* border.bin as 16-bit entries: no file, a file shorter than 8 bytes, four
\* corners (the last one names a metatile the primary table does not have)
BorderChoices == { <<>>, <<0, 1>>, <<1, 512, 0, 2>> }

border_corners == <<"top_left", "top_right", "bottom_left", "bottom_right">>

TopName(corner_name) ==
    CASE corner_name = "top_left" -> "top_left_top"
      [] corner_name = "top_right" -> "top_right_top"
      [] corner_name = "bottom_left" -> "bottom_left_top"
      [] corner_name = "bottom_right" -> "bottom_right_top"

\* a corner that reports the GID to come for a metatile that has none
ProcessBorderCornerUnallocated(acc, border_entry, corner_name) ==
    LET owner == determine_tileset_for_metatile(border_entry % (METATILE_ID_MASK + 1))
        border_tileset_name == owner[1]
        border_actual_id == owner[2]
        with_attrs == IF border_tileset_name = primary_tileset
                      THEN primary_metatiles_with_attrs
                      ELSE secondary_metatiles_with_attrs
        border_attributes == IF border_tileset_name = primary_tileset
                             THEN primary_attributes ELSE secondary_attributes
        border_layer_type_val == AttributeOf(border_attributes, border_actual_id)
        border_key == <<border_actual_id, border_tileset_name, border_layer_type_val>>
        start_idx == border_actual_id * NUM_TILES_PER_METATILE
        tiles == Slice(with_attrs, start_idx, start_idx + NUM_TILES_PER_METATILE)
        a == IF border_key \notin DOMAIN acc.used_metatiles
                /\ start_idx < Len(with_attrs)
                /\ Len(tiles) = NUM_TILES_PER_METATILE
             THEN AssignHalfGids(acc, border_key, render_metatile(tiles), "border")
             ELSE acc
    IN  IF ~LayerTypeValid(border_layer_type_val)
        THEN [acc EXCEPT !.stopped = TRUE]
        ELSE [a EXCEPT !.border_gids =
                Put(Put(@, corner_name,
                        Get(a.metatile_to_gid,
                            <<border_actual_id, border_tileset_name,
                              border_layer_type_val, FALSE>>, a.next_gid)),
                    TopName(corner_name),
                    Get(a.metatile_to_gid,
                        <<border_actual_id, border_tileset_name,
                          border_layer_type_val, TRUE>>, 0))]

\* lines 1035-1106: one corner of the border; an exception leaves the loop
\* (the except clause of line 1107), keeping what was done before it
ProcessBorderCorner(acc, border_entry, corner_name) ==
    LET owner == determine_tileset_for_metatile(border_entry % (METATILE_ID_MASK + 1))
        border_tileset_name == owner[1]
        border_actual_id == owner[2]
        with_attrs == IF border_tileset_name = primary_tileset
                      THEN primary_metatiles_with_attrs
                      ELSE secondary_metatiles_with_attrs
        border_attributes == IF border_tileset_name = primary_tileset
                             THEN primary_attributes ELSE secondary_attributes
        border_layer_type_val == AttributeOf(border_attributes, border_actual_id)
        border_key == <<border_actual_id, border_tileset_name, border_layer_type_val>>
        start_idx == border_actual_id * NUM_TILES_PER_METATILE
        tiles == Slice(with_attrs, start_idx, start_idx + NUM_TILES_PER_METATILE)
        a == IF border_key \notin DOMAIN acc.used_metatiles
                /\ start_idx < Len(with_attrs)
                /\ Len(tiles) = NUM_TILES_PER_METATILE
             THEN AssignHalfGids(acc, border_key, render_metatile(tiles), "border")
             ELSE acc
    IN  IF ~LayerTypeValid(border_layer_type_val)
        THEN [acc EXCEPT !.stopped = TRUE]
        ELSE [a EXCEPT !.border_gids =
                Put(Put(@, corner_name,
                        Get(a.metatile_to_gid,
                            <<border_actual_id, border_tileset_name,
                              border_layer_type_val, FALSE>>, 0)),
                    TopName(corner_name),
                    Get(a.metatile_to_gid,
                        <<border_actual_id, border_tileset_name,
                          border_layer_type_val, TRUE>>, 0))]

RECURSIVE ProcessBorderCorners(_, _, _)
ProcessBorderCorners(acc, border_data, corner_idx) ==
    IF corner_idx >= 4 \/ acc.stopped THEN acc
    ELSE LET nxt == ProcessBorderCorner(acc, border_data[corner_idx + 1],
                                        border_corners[corner_idx + 1])
         IN  ProcessBorderCorners(nxt, border_data, corner_idx + 1)

\* _process_border_metatiles; border_data is read from border.bin
ProcessBorderMetatiles ==
    /\ pc = "metatiles_done"
    /\ \E border_data \in BorderChoices :
       \E acc \in {IF Len(border_data) * 2 >= 8
                   THEN ProcessBorderCorners(
                            [EmptyAcc EXCEPT !.used_metatiles = used_metatiles,
                                             !.metatile_to_gid = metatile_to_gid,
                                             !.image_to_gid = image_to_gid,
                                             !.next_gid = next_gid,
                                             !.alloc_log = alloc_log],
                            border_data, 0)
                   ELSE [EmptyAcc EXCEPT !.used_metatiles = used_metatiles,
                                         !.metatile_to_gid = metatile_to_gid,
                                         !.image_to_gid = image_to_gid,
                                         !.next_gid = next_gid,
                                         !.alloc_log = alloc_log]} :
            /\ pc' = "border_done"
            /\ used_metatiles' = acc.used_metatiles
            /\ metatile_to_gid' = acc.metatile_to_gid
            /\ image_to_gid' = acc.image_to_gid
            /\ next_gid' = acc.next_gid
            /\ alloc_log' = acc.alloc_log
            /\ border_gids' = acc.border_gids
    /\ UNCHANGED <<callVars, inputVars, readVars, validateVars, routeVars, tileVars, animVars, tile_id_to_gids, metatile_composition,
                   composition_order, layer_data_bg3, layer_data_bg2, layer_data_bg1,
                   used_gids>>

\* a layer assignment that puts the top half of a COVERED metatile in front
AssignCellLayersCoveredFront(L, idx, layer_type, bottom_gid, top_gid) ==
    LET used == L.used_gids \cup {g \in {bottom_gid, top_gid} : g > 0}
    IN  IF layer_type = NORMAL
        THEN [L EXCEPT !.bg2[idx + 1] = bottom_gid, !.bg1[idx + 1] = top_gid,
                       !.used_gids = used]
        ELSE [L EXCEPT !.bg3[idx + 1] = bottom_gid, !.bg1[idx + 1] = top_gid,
                       !.used_gids = used]

\* a layer assignment that forgets to mark the top GID as used
AssignCellLayersBottomUsed(L, idx, layer_type, bottom_gid, top_gid) ==
    LET used == L.used_gids \cup {g \in {bottom_gid} : g > 0}
    IN  IF layer_type = NORMAL
        THEN [L EXCEPT !.bg2[idx + 1] = bottom_gid, !.bg1[idx + 1] = top_gid,
                       !.used_gids = used]
        ELSE IF layer_type = COVERED
        THEN [L EXCEPT !.bg3[idx + 1] = bottom_gid, !.bg2[idx + 1] = top_gid,
                       !.used_gids = used]
        ELSE IF layer_type = SPLIT
        THEN [L EXCEPT !.bg3[idx + 1] = bottom_gid, !.bg1[idx + 1] = top_gid,
                       !.used_gids = used]
        ELSE L

\* lines 1172-1198: the layer entries and used GIDs of one cell;
\* L is [bg3, bg2, bg1, used_gids]
AssignCellLayers(L, idx, layer_type, bottom_gid, top_gid) ==
    LET used == L.used_gids \cup {g \in {bottom_gid, top_gid} : g > 0}
    IN  IF layer_type = NORMAL
        THEN [L EXCEPT !.bg2[idx + 1] = bottom_gid, !.bg1[idx + 1] = top_gid,
                       !.used_gids = used]
        ELSE IF layer_type = COVERED
        THEN [L EXCEPT !.bg3[idx + 1] = bottom_gid, !.bg2[idx + 1] = top_gid,
                       !.used_gids = used]
        ELSE IF layer_type = SPLIT
        THEN [L EXCEPT !.bg3[idx + 1] = bottom_gid, !.bg1[idx + 1] = top_gid,
                       !.used_gids = used]
        ELSE L

\* the loop of _build_map_layers over the cells, lines 1148-1198
RECURSIVE BuildCells(_, _)
BuildCells(L, x) ==
    IF x >= Len(map_entries) \/ L.raised THEN L
    ELSE LET owner == determine_tileset_for_metatile(extract_metatile_id(map_entries[x + 1]))
             attributes == IF owner[1] = primary_tileset
                           THEN primary_attributes ELSE secondary_attributes
             layer_type_val == AttributeOf(attributes, owner[2])
             bottom_gid == Get(metatile_to_gid, <<owner[2], owner[1], layer_type_val, FALSE>>, 0)
             top_gid == Get(metatile_to_gid, <<owner[2], owner[1], layer_type_val, TRUE>>, 0)
         IN  IF ~LayerTypeValid(layer_type_val)
             THEN [L EXCEPT !.raised = TRUE]
             ELSE LET nxt == AssignCellLayers(L, x, layer_type_val, bottom_gid, top_gid)
                  IN  BuildCells(nxt, x + 1)

\* lines 1138-1141
BorderUsedGids == {border_gids[k] : k \in {c \in DOMAIN border_gids : border_gids[c] > 0}}

BuildMapLayers ==
    /\ pc = "border_done"
    /\ \E L \in {BuildCells([bg3 |-> Zeros(Len(map_entries)),
                             bg2 |-> Zeros(Len(map_entries)),
                             bg1 |-> Zeros(Len(map_entries)),
                             used_gids |-> BorderUsedGids, raised |-> FALSE], 0)} :
        IF L.raised
        THEN \* MetatileLayerType(layer_type_val) raised ValueError, line 1166
             /\ pc' = "gid_raised"
             /\ UNCHANGED <<layer_data_bg3, layer_data_bg2, layer_data_bg1, used_gids>>
        ELSE /\ pc' = "layers_done"
             /\ layer_data_bg3' = L.bg3
             /\ layer_data_bg2' = L.bg2
             /\ layer_data_bg1' = L.bg1
             /\ used_gids' = L.used_gids
    /\ UNCHANGED <<callVars, inputVars, readVars, validateVars, routeVars, tileVars, animVars, used_metatiles, metatile_to_gid, tile_id_to_gids,
                   metatile_composition, composition_order, image_to_gid, next_gid,
                   border_gids, alloc_log>>

(* ---------------------------------------------------------------------- *)
(* _create_tileset_for_map and _build_metatile_animations                  *)
(* ---------------------------------------------------------------------- *)
\* the standard cycle of strip animations, lines 2142-2143
num_anim_frames == 8
strip_duration_ms == 200

\* the atlas is a grid of 16 columns, line 1242
cols == 16

Img16(g) == <<<<g, 0>>, <<g, 0>>, <<g, 0>>, <<g, 0>>>>

AnimDef(name, base, n, sec, frames, dur, meta, seq) ==
    [anim_name |-> name, base_tile_id |-> base, num_tiles |-> n, is_secondary |-> sec,
     frames |-> frames, duration_ms |-> dur, is_metatile |-> meta, frame_sequence |-> seq]

\* what the animation scanner finds for the two tilesets:
\* <<definitions of the primary tileset, definitions of the secondary tileset>>,
\* each definition with the frames extract_all_animation_tiles returns for it
\* (8x8 tiles are given by their pixels, 16x16 frames are images; an empty
\* frame_sequence stands for None)
AnimChoices ==
    { << <<>>, <<>> >>,
      << <<AnimDef("water", 432, 2, FALSE, <<1, 2, 5, 6>>, 133, FALSE, <<>>)>>,
         <<AnimDef("windy_water", 128, 1, TRUE, <<1, 7, 8>>, 200, FALSE, <<0, 1, 0, 2>>)>> >>,
      << <<AnimDef("water", 432, 2, FALSE, <<1, 2, 5>>, 200, FALSE, <<0, 1, 3>>)>>,
         <<AnimDef("windy_water", 128, 1, TRUE, <<7>>, 200, FALSE, <<>>)>> >>,
      << <<AnimDef("flower", 433, 1, FALSE, <<Img16(11), Img16(12)>>, 150, TRUE, <<0, 1, 0>>),
           AnimDef("water", 432, 2, FALSE, <<5>>, 200, FALSE, <<>>)>>,
         <<>> >>,
      \* two 16x16 animations; the sequence of the second one names a frame
      \* for which no image was found
      << <<AnimDef("tv_turned_on", 432, 1, FALSE, <<Img16(13), Img16(14)>>, 300, TRUE, <<>>),
           AnimDef("flower", 433, 1, FALSE, <<Img16(11), Img16(12)>>, 150, TRUE,
                   <<0, 1, 0, 2>>)>>,
         <<>> >> }

RECURSIVE SortedSeq(_)
SortedSeq(S) ==
    IF S = {} THEN <<>>
    ELSE LET m == CHOOSE x \in S : \A y \in S : x <= y
         IN  <<m>> \o SortedSeq(S \ {m})

\* lines 1233-1239: GID -> image, only for used GIDs
GidToImage(m2g, um, used) ==
    LET keys == {k \in DOMAIN m2g : m2g[k] \in used}
    IN  [g \in {m2g[k] : k \in keys} |->
            LET k == CHOOSE q \in keys : m2g[q] = g
            IN  um[<<k[1], k[2], k[3]>>][IF k[4] THEN 2 ELSE 1]]

\* lines 1249-1262: the images pasted in increasing GID order, slot 0, 1, ...
BaseAtlas(gid_to_image) ==
    LET order == SortedSeq(DOMAIN gid_to_image)
    IN  [slot \in 0..(Len(order) - 1) |-> gid_to_image[order[slot + 1]]]

\* lines 1982-2044 (phase 1), one animation definition: the gid_mappings of
\* its tile range
RECURSIVE GidMappings(_, _, _)
GidMappings(tile_id, last, base_tileset) ==
    IF tile_id > last THEN <<>>
    ELSE Get(tile_id_to_gids, <<tile_id, base_tileset>>, <<>>)
         \o GidMappings(tile_id + 1, last, base_tileset)

\* index (1-based) of key in the ordered dict ma, 0 when absent
IndexOfKey(ma, key) ==
    IF \E i \in DOMAIN ma : ma[i][1] = key
    THEN CHOOSE i \in DOMAIN ma : ma[i][1] = key
    ELSE 0

\* lines 2020-2044: one (layer_gid, metatile_key, tile_position) mapping
AddAnimInfo(ma, d, actual_base_tile_id, mapping) ==
    LET layer_gid == mapping[1]
        metatile_key == mapping[2]
        tile_position == mapping[3]
        info == [anim_name |-> d.anim_name, frames |-> d.frames,
                 duration_ms |-> d.duration_ms, frame_sequence |-> d.frame_sequence,
                 actual_base_tile_id |-> actual_base_tile_id, num_tiles |-> d.num_tiles,
                 is_metatile |-> d.is_metatile, layer_gid |-> layer_gid,
                 tile_position |-> tile_position]
        i == IndexOfKey(ma, metatile_key)
    IN  IF layer_gid \notin used_gids THEN ma
        ELSE IF i = 0 THEN ma \o << <<metatile_key, <<info>> >> >>
        ELSE IF \E j \in DOMAIN ma[i][2] :
                    /\ ma[i][2][j].anim_name = d.anim_name
                    /\ ma[i][2][j].tile_position = tile_position
             THEN ma
             ELSE [ma EXCEPT ![i][2] = @ \o <<info>>]

RECURSIVE AddAnimInfos(_, _, _, _, _)
AddAnimInfos(ma, d, actual_base_tile_id, mappings, j) ==
    IF j > Len(mappings) THEN ma
    ELSE LET nxt == AddAnimInfo(ma, d, actual_base_tile_id, mappings[j])
         IN  AddAnimInfos(nxt, d, actual_base_tile_id, mappings, j + 1)

\* phase 1 over all_anim_defs; each entry of defs is <<definition, base_tileset>>
RECURSIVE CollectAnimations(_, _, _)
CollectAnimations(ma, defs, k) ==
    IF k > Len(defs) THEN ma
    ELSE LET d == defs[k][1]
             actual_base_tile_id == IF d.is_secondary THEN d.base_tile_id + 512
                                    ELSE d.base_tile_id
             mappings == GidMappings(actual_base_tile_id,
                                     actual_base_tile_id + d.num_tiles - 1, defs[k][2])
             nxt == IF Len(mappings) = 0 \/ Len(d.frames) = 0 THEN ma
                    ELSE AddAnimInfos(ma, d, actual_base_tile_id, mappings, 1)
         IN  CollectAnimations(nxt, defs, k + 1)

\* a frame choice that ignores frame_sequence
ActualFrameLinear(frame_seq, frame_num, num_tiles, nframes) ==
    IF num_tiles > 0 /\ nframes > 0
    THEN IF nframes \div num_tiles > 0
         THEN frame_num % (nframes \div num_tiles)
         ELSE 0
    ELSE 0

\* lines 2154-2165: the frame shown at cycle step frame_num
ActualFrame(frame_seq, frame_num, num_tiles, nframes) ==
    IF Len(frame_seq) > 0
    THEN frame_seq[(frame_num % Len(frame_seq)) + 1]
    ELSE IF num_tiles > 0 /\ nframes > 0
         THEN IF nframes \div num_tiles > 0
              THEN frame_num % (nframes \div num_tiles)
              ELSE 0
         ELSE 0

\* lines 2167-2169: whether frames[frame_tile_idx] is read
FrameTileInList(frame_tile_idx, nframes) == 0 <= frame_tile_idx /\ frame_tile_idx < nframes

\* lines 2174-2177: the flips applied to the substituted tile
FlipOf(flip_flags) ==
    (IF (flip_flags % 2) = 1 THEN FLIP_HORIZONTAL ELSE 0)
    + (IF ((flip_flags \div 2) % 2) = 1 THEN FLIP_VERTICAL ELSE 0)

FrameTileIdx(t, frame_num) ==
    ActualFrame(t.frame_sequence, frame_num, t.num_tiles, Len(t.frames)) * t.num_tiles
    + (t.tile_id - t.actual_base_tile_id)

\* lines 2148-2180: the half image of cycle step frame_num; tiles maps the
\* animated positions (0..3) of the half to their animation
CompositeHalf(base_img, tiles, frame_num) ==
    [q \in 1..4 |->
        IF (q - 1) \in DOMAIN tiles
           /\ FrameTileInList(FrameTileIdx(tiles[q - 1], frame_num), Len(tiles[q - 1].frames))
        THEN <<tiles[q - 1].frames[FrameTileIdx(tiles[q - 1], frame_num) + 1],
               FlipOf(tiles[q - 1].flip_flags)>>
        ELSE base_img[q]]

\* history of the frame lookups of CompositeHalf
ReadsOf(tiles, half, frame_num) ==
    {[anim_name |-> tiles[p].anim_name, half |-> half, pos |-> p, frame_num |-> frame_num,
      tile_id |-> tiles[p].tile_id, actual_base_tile_id |-> tiles[p].actual_base_tile_id,
      num_tiles |-> tiles[p].num_tiles, nframes |-> Len(tiles[p].frames),
      frame_sequence |-> tiles[p].frame_sequence,
      actual_frame |-> ActualFrame(tiles[p].frame_sequence, frame_num,
                                   tiles[p].num_tiles, Len(tiles[p].frames)),
      frame_tile_idx |-> FrameTileIdx(tiles[p], frame_num),
      read |-> FrameTileInList(FrameTileIdx(tiles[p], frame_num), Len(tiles[p].frames))]
     : p \in DOMAIN tiles}

\* lines 2119-2135: the animated positions of one half (offset 0: bottom,
\* offset 4: top) and the GIDs the animations were found under
RECURSIVE HalfTiles(_, _, _, _, _)
HalfTiles(acc, anim_info_list, metatile_tiles, offset, j) ==
    IF j > Len(anim_info_list) THEN acc
    ELSE LET info == anim_info_list[j]
             pos == info.tile_position
             ref == metatile_tiles[pos + 1]
             inHalf == IF offset = 0 THEN pos < 4 ELSE ~(pos < 4)
             inRange == ref[1] >= info.actual_base_tile_id
                        /\ ref[1] < info.actual_base_tile_id + info.num_tiles
             nxt == IF inHalf /\ inRange
                    THEN [tiles |-> Put(acc.tiles, pos - offset,
                                        [tile_id |-> ref[1], flip_flags |-> ref[2],
                                         anim_name |-> info.anim_name,
                                         frames |-> info.frames,
                                         actual_base_tile_id |-> info.actual_base_tile_id,
                                         num_tiles |-> info.num_tiles,
                                         frame_sequence |-> info.frame_sequence]),
                          gids |-> acc.gids \cup {info.layer_gid}]
                    ELSE acc
         IN  HalfTiles(nxt, anim_info_list, metatile_tiles, offset, j + 1)

\* lines 2077-2091 and 2213-2223: the images imgs[1..n] are pasted in turn
\* at slot next_gid - 1, next_gid + 0, ...; when a slot lies below the last
\* row of the image, the image is replaced by a taller copy (P.orig keeps
\* what the image object of the caller holds: the pastes before the first
\* replacement)
PasteFrames(P, imgs) ==
    LET first == P.next_gid - 1
        last == first + Len(imgs) - 1
        pasted == [slot \in (DOMAIN P.atlas) \cup (first..last) |->
                      IF slot \in first..last THEN imgs[slot - first + 1]
                      ELSE P.atlas[slot]]
        grow == Len(imgs) > 0 /\ (last \div cols) + 1 > P.rows
        first_grown == IF first > P.rows * cols THEN first ELSE P.rows * cols
    IN  [P EXCEPT !.atlas = pasted,
                  !.next_gid = @ + Len(imgs),
                  !.rows = IF grow THEN (last \div cols) + 1 ELSE @,
                  !.resized = @ \/ grow,
                  !.orig = IF P.resized \/ ~grow THEN @
                           ELSE [slot \in {q \in DOMAIN pasted : q < first_grown} |->
                                    pasted[slot]]]

Timeline(gid, entries, kind, half, key) ==
    [id |-> gid - 1, animation |-> entries, kind |-> kind, half |-> half, key |-> key]

\* timelines attached to every GID of the metatile, whichever half is animated
RECURSIVE AppendTimelinesAllGids(_, _, _, _, _)
AppendTimelinesAllGids(anims, gids, entries, half, key) ==
    IF Len(gids) = 0 THEN anims
    ELSE LET all == SortedSeq({metatile_to_gid[<<key[1], key[2], key[3], FALSE>>],
                               metatile_to_gid[<<key[1], key[2], key[3], TRUE>>]})
         IN  anims \o [i \in 1..Len(all) |-> Timeline(all[i], entries, "strip", half, key)]

\* "for gid in layer_gids: if gid in used_gids: animations.append(...)"
RECURSIVE AppendTimelines(_, _, _, _, _)
AppendTimelines(anims, gids, entries, half, key) ==
    IF Len(gids) = 0 THEN anims
    ELSE AppendTimelines(
             IF gids[1] \in used_gids
             THEN Append(anims, Timeline(gids[1], entries, "strip", half, key))
             ELSE anims,
             Tail(gids), entries, half, key)

\* a timeline that keeps the duration_ms of the last definition of the
\* metatile (the loop variable of line 2119) instead of the standard one
FrameEntriesOfDefinition(frame_map, anim_info_list) ==
    LET steps == SortedSeq({f \in 0..(num_anim_frames - 1) : f \in DOMAIN frame_map})
    IN  [i \in 1..Len(steps) |->
            [tileid |-> frame_map[steps[i]],
             duration |-> anim_info_list[Len(anim_info_list)].duration_ms]]

\* lines 2271-2287: the entries of a timeline, one per cycle step that has
\* a frame; duration_ms is the standard duration set at line 2143, whatever
\* the definitions in anim_info_list say
FrameEntries(frame_map, anim_info_list) ==
    LET steps == SortedSeq({f \in 0..(num_anim_frames - 1) : f \in DOMAIN frame_map})
    IN  [i \in 1..Len(steps) |->
            [tileid |-> frame_map[steps[i]], duration |-> strip_duration_ms]]

\* lines 2110-2301: the strip animations of one metatile
StripAnimations(P, metatile_key, anim_info_list) ==
    LET metatile_tiles == metatile_composition[metatile_key]
        base == used_metatiles[metatile_key]
        bottom == HalfTiles([tiles |-> EmptyDict, gids |-> {}], anim_info_list,
                            metatile_tiles, 0, 1)
        top == HalfTiles([tiles |-> EmptyDict, gids |-> {}], anim_info_list,
                         metatile_tiles, 4, 1)
        first == P.next_gid - 1
        bottom_imgs == [f \in 1..num_anim_frames |-> CompositeHalf(base[1], bottom.tiles, f - 1)]
        top_imgs == IF DOMAIN top.tiles # {}
                    THEN [f \in 1..num_anim_frames |-> CompositeHalf(base[2], top.tiles, f - 1)]
                    ELSE <<>>
        composited_frame_map == [f \in 0..(num_anim_frames - 1) |-> first + f]
        composited_top_frame_map ==
            IF DOMAIN top.tiles # {}
            THEN [f \in 0..(num_anim_frames - 1) |-> first + num_anim_frames + f]
            ELSE EmptyDict
        composited_frame_gids == FrameEntries(composited_frame_map, anim_info_list)
        composited_top_frame_gids == FrameEntries(composited_top_frame_map, anim_info_list)
        P1 == PasteFrames(P, bottom_imgs \o top_imgs)
        a1 == IF DOMAIN bottom.tiles # {}
              THEN AppendTimelines(P.animations, SortedSeq(bottom.gids),
                                   composited_frame_gids, "bottom", metatile_key)
              ELSE P.animations
        a2 == IF Len(composited_top_frame_gids) > 0 /\ DOMAIN top.tiles # {}
              THEN AppendTimelines(a1, SortedSeq(top.gids),
                                   composited_top_frame_gids, "top", metatile_key)
              ELSE a1
    IN  IF DOMAIN bottom.tiles = {} /\ DOMAIN top.tiles = {} THEN P
        ELSE [P1 EXCEPT
                !.animations = a2,
                !.reads = @ \cup UNION {ReadsOf(bottom.tiles, "bottom", f)
                                        \cup ReadsOf(top.tiles, "top", f)
                                        : f \in 0..(num_anim_frames - 1)}]

\* the last metatile-typed (16x16) animation of one metatile instead of the
\* first
MetatileAnimationLast(P, metatile_key, anim_info_list) ==
    LET j == CHOOSE i \in DOMAIN anim_info_list :
                 /\ anim_info_list[i].is_metatile
                 /\ \A h \in (i + 1)..Len(anim_info_list) : ~anim_info_list[h].is_metatile
        info == anim_info_list[j]
        first == P.next_gid - 1
        P1 == PasteFrames(P, info.frames)
        playback_order == IF Len(info.frame_sequence) > 0 THEN info.frame_sequence
                          ELSE [i \in 1..Len(info.frames) |-> i - 1]
        kept == SelectSeq(playback_order, LAMBDA q : q >= 0 /\ q < Len(info.frames))
        shared_frame_gids ==
            [i \in 1..Len(kept) |-> [tileid |-> first + kept[i], duration |-> info.duration_ms]]
    IN  IF info.layer_gid \in used_gids /\ Len(shared_frame_gids) > 0
        THEN [P1 EXCEPT !.animations =
                Append(@, Timeline(info.layer_gid, shared_frame_gids, "metatile",
                                   IF info.tile_position < 4 THEN "bottom" ELSE "top",
                                   metatile_key))]
        ELSE P1

\* lines 2067-2108: the first metatile-typed (16x16) animation of one metatile
MetatileAnimation(P, metatile_key, anim_info_list) ==
    LET j == CHOOSE i \in DOMAIN anim_info_list :
                 /\ anim_info_list[i].is_metatile
                 /\ \A h \in 1..(i - 1) : ~anim_info_list[h].is_metatile
        info == anim_info_list[j]
        first == P.next_gid - 1
        P1 == PasteFrames(P, info.frames)
        playback_order == IF Len(info.frame_sequence) > 0 THEN info.frame_sequence
                          ELSE [i \in 1..Len(info.frames) |-> i - 1]
        kept == SelectSeq(playback_order, LAMBDA q : q >= 0 /\ q < Len(info.frames))
        shared_frame_gids ==
            [i \in 1..Len(kept) |-> [tileid |-> first + kept[i], duration |-> info.duration_ms]]
    IN  IF info.layer_gid \in used_gids /\ Len(shared_frame_gids) > 0
        THEN [P1 EXCEPT !.animations =
                Append(@, Timeline(info.layer_gid, shared_frame_gids, "metatile",
                                   IF info.tile_position < 4 THEN "bottom" ELSE "top",
                                   metatile_key))]
        ELSE P1

\* phase 2, lines 2047-2301, over metatile_animations in insertion order
RECURSIVE BuildAnimations(_, _, _)
BuildAnimations(P, ma, k) ==
    IF k > Len(ma) THEN P
    ELSE LET metatile_key == ma[k][1]
             anim_info_list == ma[k][2]
             nxt == IF metatile_key \notin DOMAIN used_metatiles
                       \/ metatile_key \notin DOMAIN metatile_composition
                    THEN P
                    ELSE IF \E i \in DOMAIN anim_info_list : anim_info_list[i].is_metatile
                    THEN MetatileAnimation(P, metatile_key, anim_info_list)
                    ELSE StripAnimations(P, metatile_key, anim_info_list)
         IN  BuildAnimations(nxt, ma, k + 1)

\* a deduplication that keeps the timeline generated last for every id
RECURSIVE DeduplicateAnimationsKeepLast(_, _, _)
DeduplicateAnimationsKeepLast(anims, seen_ids, out) ==
    IF Len(anims) = 0 THEN out
    ELSE IF \E h \in 2..Len(anims) : anims[h].id = anims[1].id
         THEN DeduplicateAnimationsKeepLast(Tail(anims), seen_ids, out)
         ELSE DeduplicateAnimationsKeepLast(Tail(anims), seen_ids \cup {anims[1].id},
                                            Append(out, anims[1]))

\* lines 2303-2314: keep the first timeline of every id
RECURSIVE DeduplicateAnimations(_, _, _)
DeduplicateAnimations(anims, seen_ids, out) ==
    IF Len(anims) = 0 THEN out
    ELSE IF anims[1].id \in seen_ids
         THEN DeduplicateAnimations(Tail(anims), seen_ids, out)
         ELSE DeduplicateAnimations(Tail(anims), seen_ids \cup {anims[1].id},
                                    Append(out, anims[1]))

\* all_anim_defs, lines 1966-1972
AllAnimDefs(choice) ==
    [i \in 1..Len(choice[1]) |-> <<choice[1][i], primary_tileset>>]
    \o [i \in 1..Len(choice[2]) |-> <<choice[2][i], secondary_tileset>>]

\* lines 1243-1244
AtlasRows(unique_tile_count) ==
    IF unique_tile_count > 0 THEN (unique_tile_count + cols - 1) \div cols ELSE 1

\* _build_metatile_animations, lines 1949-2314, on the atlas of tile_idx base
\* images; the result is <<animations before deduplication, animations
\* returned, image returned, frame lookups>>
BuildMetatileAnimations(defs, atlas, tile_idx) ==
    LET P0 == [next_gid |-> tile_idx + 1, atlas |-> atlas, rows |-> AtlasRows(tile_idx),
               resized |-> FALSE, orig |-> atlas, animations |-> <<>>, reads |-> {}]
    IN  IF Len(defs) = 0
        THEN [raw |-> <<>>, animations |-> <<>>, updated |-> atlas, caller |-> atlas,
              reads |-> {}]
        ELSE LET P == BuildAnimations(P0, CollectAnimations(<<>>, defs, 1), 1)
             IN  [raw |-> P.animations,
                  animations |-> DeduplicateAnimations(P.animations, {}, <<>>),
                  updated |-> P.atlas,
                  caller |-> IF P.resized THEN P.orig ELSE P.atlas,
                  reads |-> P.reads]

\* _create_tileset_for_map, lines 1231-1321
CreateTilesetForMap ==
    /\ pc = "layers_done"
    /\ \E choice \in AnimChoices :
       \E base \in {BaseAtlas(GidToImage(metatile_to_gid, used_metatiles, used_gids))} :
       \E r \in {BuildMetatileAnimations(AllAnimDefs(choice), base,
                                         Cardinality(DOMAIN base))} :
            /\ all_anim_defs' = AllAnimDefs(choice)
            /\ current_tile_idx' = Cardinality(DOMAIN base)
            /\ raw_animations' = r.raw
            /\ animations' = r.animations
            /\ tileset_image' = IF Len(r.animations) > 0 THEN r.updated ELSE r.caller
            /\ frame_reads' = r.reads
    /\ pc' = "tileset_done"
    /\ UNCHANGED <<callVars, inputVars, readVars, validateVars, routeVars, tileVars, gidVars>>

vars == <<pc, inputVars, tileVars, gidVars, animVars, routeVars, readVars, validateVars,
          callVars>>

\* nothing converted yet
Blank ==
    /\ bg3_data = <<>>
    /\ bg2_data = <<>>
    /\ bg1_data = <<>>
    /\ used_primary_tiles = {}
    /\ used_secondary_tiles = {}
    /\ used_primary_tiles_with_palettes = {}
    /\ used_secondary_tiles_with_palettes = {}
    /\ used_metatiles = EmptyDict
    /\ metatile_to_gid = EmptyDict
    /\ tile_id_to_gids = EmptyDict
    /\ metatile_composition = EmptyDict
    /\ composition_order = <<>>
    /\ image_to_gid = EmptyDict
    /\ next_gid = 1
    /\ border_gids = EmptyDict
    /\ layer_data_bg3 = <<>>
    /\ layer_data_bg2 = <<>>
    /\ layer_data_bg1 = <<>>
    /\ used_gids = {}
    /\ alloc_log = <<>>
    /\ all_anim_defs = <<>>
    /\ tileset_image = EmptyDict
    /\ current_tile_idx = 0
    /\ raw_animations = <<>>
    /\ animations = <<>>
    /\ frame_reads = {}
    /\ read_op = "none"
    /\ read_out = NoResult
    /\ maps_converted = 0

\* no validation call
NoCall ==
    /\ call_in = <<>>
    /\ call_out = <<>>

NoValidate ==
    /\ validate_in = [used |-> EmptyUsed, primary_max_tile |-> NoneVal,
                      secondary_max_tile |-> NoneVal]
    /\ validate_out = <<>>

Init ==
    /\ pc = "start"
    /\ map_entries \in [1..MapCells -> MapEntryChoices]
    /\ \E t \in TableChoices :
        /\ primary_metatiles_with_attrs = t[1]
        /\ secondary_metatiles_with_attrs = t[2]
    /\ primary_attributes \in [1..2 -> 0..MaxLayerType] \cup {<<>>}
    /\ secondary_attributes \in [1..1 -> 0..MaxLayerType] \cup {<<>>}
    /\ file_data = LittleEndian(map_entries)
    /\ layout_width = MapCells
    /\ layout_height = 1
    /\ Blank
    /\ route_in = [tile_id |-> 0, palette_index |-> 0, tileset_name_for_tile |-> primary_tileset,
                   used |-> EmptyUsed]
    /\ route_out = EmptyUsed
    /\ NoValidate
    /\ NoCall

Next ==
    \/ ConvertMap
    \/ ProcessMetatiles
    \/ ProcessBorderMetatiles
    \/ BuildMapLayers
    \/ CreateTilesetForMap

Spec == Init /\ [][Next]_vars

(* ---------------------------------------------------------------------- *)
(* one MapConverter converting one map after another                       *)
(* ---------------------------------------------------------------------- *)
\* the pipeline has returned (a result, None, or an exception)
Returned ==
    pc \in {"tiles_done", "tiles_raised", "tiles_aborted",
            "gid_aborted", "gid_raised", "tileset_done"}

\* the first map: cells of both tilesets over full metatile tables
InitTwoMaps ==
    /\ Init
    /\ map_entries \in [1..MapCells -> {0, 512}]
    /\ Len(primary_metatiles_with_attrs) > 0
    /\ Len(secondary_metatiles_with_attrs) > 0
    /\ primary_attributes = <<2, 0>>
    /\ secondary_attributes = <<1>>

\* the caller hands the same converter another map (other cells, other
\* tilesets); what the last call left in its structures is still in memory
ConvertNextMap ==
    /\ Returned
    /\ maps_converted = 0
    /\ maps_converted' = maps_converted + 1
    /\ pc' = "start"
    /\ map_entries' \in [1..MapCells -> {0, 1025}]
    /\ file_data' = LittleEndian(map_entries')
    /\ \E t \in TableChoices :
        /\ primary_metatiles_with_attrs' = t[1]
        /\ secondary_metatiles_with_attrs' = t[2]
    /\ UNCHANGED <<callVars, primary_attributes, secondary_attributes, layout_width, layout_height,
                   tileVars, gidVars, animVars, routeVars, readVars, validateVars>>

NextTwoMaps ==
    \/ Next
    \/ ConvertNextMap

SpecTwoMaps == InitTwoMaps /\ [][NextTwoMaps]_vars

(* ---------------------------------------------------------------------- *)
(* add_used_tile_with_palette over the whole 10-bit tile id space          *)
(* ---------------------------------------------------------------------- *)
\* used-tile sets a call may find: nothing yet, or tiles in both banks
UsedChoices ==
    { EmptyUsed,
      [primary |-> {5}, secondary |-> {88}, primary_pal |-> {<<5, 0>>},
       secondary_pal |-> {<<88, 1>>}] }

InitRoute ==
    /\ pc = "route"
    /\ map_entries = <<>>
    /\ primary_metatiles_with_attrs = <<>>
    /\ secondary_metatiles_with_attrs = <<>>
    /\ primary_attributes = <<>>
    /\ secondary_attributes = <<>>
    /\ file_data = <<>>
    /\ layout_width = 0
    /\ layout_height = 0
    /\ Blank
    /\ route_in \in [tile_id : 0..1023, palette_index : 0..1,
                      tileset_name_for_tile : {primary_tileset, secondary_tileset},
                      used : UsedChoices]
    /\ route_out = EmptyUsed
    /\ NoValidate
    /\ NoCall

Route ==
    /\ pc = "route"
    /\ pc' = "routed"
    /\ route_out' = add_used_tile_with_palette(route_in.used, route_in.tile_id,
                                                route_in.palette_index,
                                                route_in.tileset_name_for_tile)
    /\ UNCHANGED <<callVars, inputVars, readVars, validateVars, tileVars, gidVars, animVars, route_in>>

NextRoute == Route

SpecRoute == InitRoute /\ [][NextRoute]_vars

(* ---------------------------------------------------------------------- *)
(* The validation of the used-tile sets                                    *)
(* ---------------------------------------------------------------------- *)
\* used-tile sets as add_used_tile_with_palette leaves them: the primary set
\* holds tile ids of primary metatiles (any 10-bit id) and ids below 512 of
\* secondary metatiles, the secondary set holds ids minus 512
ValidateChoices ==
    [used : {[primary |-> p, secondary |-> q,
              primary_pal |-> {<<t, 0>> : t \in p}, secondary_pal |-> {<<t, 0>> : t \in q}]
             : p \in SUBSET {5, 200, 600}, q \in SUBSET {0, 88, 128}},
     primary_max_tile : MaxTileChoices,
     secondary_max_tile : MaxTileChoices]

InitValidate ==
    /\ pc = "validate"
    /\ map_entries = <<>>
    /\ primary_metatiles_with_attrs = <<>>
    /\ secondary_metatiles_with_attrs = <<>>
    /\ primary_attributes = <<>>
    /\ secondary_attributes = <<>>
    /\ file_data = <<>>
    /\ layout_width = 0
    /\ layout_height = 0
    /\ Blank
    /\ route_in = [tile_id |-> 0, palette_index |-> 0, tileset_name_for_tile |-> primary_tileset,
                   used |-> EmptyUsed]
    /\ route_out = EmptyUsed
    /\ validate_in \in ValidateChoices
    /\ validate_out = <<>>
    /\ NoCall

\* lines 357-389 on the sets collected from the map
Validate ==
    /\ pc = "validate"
    /\ pc' = "validated"
    /\ validate_out' = <<ValidateUsedTiles(validate_in.used, validate_in.primary_max_tile,
                                           validate_in.secondary_max_tile)>>
    /\ UNCHANGED <<callVars, inputVars, tileVars, gidVars, animVars, routeVars, readVars, validate_in>>

\* lines 357-389 once more, on the sets the first application produced
ValidateAgain ==
    /\ pc = "validated"
    /\ pc' = "validated_twice"
    /\ validate_out' = Append(validate_out,
                              ValidateUsedTiles(validate_out[1], validate_in.primary_max_tile,
                                                validate_in.secondary_max_tile))
    /\ UNCHANGED <<callVars, inputVars, tileVars, gidVars, animVars, routeVars, readVars, validate_in>>

NextValidate ==
    \/ Validate
    \/ ValidateAgain

SpecValidate == InitValidate /\ [][NextValidate]_vars

(* ---------------------------------------------------------------------- *)
(* Reading map.bin and the metatile tables                                 *)
(* ---------------------------------------------------------------------- *)
\* largest layout of the reader specification
MaxWidth == 2
MaxHeight == 2

\* default max_size of validate_map_dimensions
max_size == 1000

COLLISION_MASK == 3072
ELEVATION_MASK == 61440

\* validators.validate_map_dimensions: TRUE when it returns, FALSE when it
\* raises ValueError
validate_map_dimensions(width, height) ==
    ~(width <= 0) /\ ~(height <= 0) /\ ~(width > max_size) /\ ~(height > max_size)

\* "for i in range(0, len(data), 2): if i + 1 < len(data):
\*      entry = struct.unpack('<H', data[i:i+2])[0]"
DecodeRecords(data) ==
    [k \in 1..Cardinality({i \in 0..(Len(data) - 1) : i % 2 = 0 /\ i + 1 < Len(data)}) |->
        data[2 * k - 1] + 256 * data[2 * k]]

\* a reader that fills the grid column by column
MapReader_read_map_bin_by_columns(data, width, height) ==
    IF ~validate_map_dimensions(width, height)
    THEN Result("ValueError", <<>>, width, height)
    ELSE LET entries == DecodeRecords(data)
         IN  IF Len(entries) # width * height
             THEN Result("ValueError", <<>>, width, height)
             ELSE Result("ok",
                         [y \in 1..height |-> [x \in 1..width |->
                             entries[(x - 1) * height + (y - 1) + 1]]],
                         width, height)

\* MapReader.read_map_bin (the file exists and is a regular file)
MapReader_read_map_bin(data, width, height) ==
    IF ~validate_map_dimensions(width, height)
    THEN Result("ValueError", <<>>, width, height)
    ELSE LET entries == DecodeRecords(data)
         IN  IF Len(entries) # width * height
             THEN Result("ValueError", <<>>, width, height)
             ELSE Result("ok",
                         [y \in 1..height |-> [x \in 1..width |->
                             entries[(y - 1) * width + (x - 1) + 1]]],
                         width, height)

\* metatile.read_map_bin
read_map_bin(data, width, height) ==
    LET entries == DecodeRecords(data)
    IN  IF Len(entries) # width * height
        THEN Result("ValueError", <<>>, width, height)
        ELSE Result("ok",
                    [y \in 1..height |-> Slice(entries, (y - 1) * width, y * width)],
                    width, height)

\* MapConverter._read_and_validate_map_data
ReadAndValidateMapData(data, width, height) ==
    LET r == MapReader_read_map_bin(data, width, height)
        file_size == Len(data)
        expected_entries == width * height
        actual_entries == file_size \div 2
        half_width == width \div 2
        half_height == height \div 2
    IN  IF r.status = "ok" THEN r
        ELSE IF actual_entries # expected_entries
        THEN IF half_width > 0 /\ half_height > 0
                /\ actual_entries = half_width * half_height
             THEN MapReader_read_map_bin(data, half_width, half_height)
             ELSE Result("None", <<>>, width, height)
        ELSE r

\* convert_map_with_metatiles, lines 1862-1869: what the conversion goes on
\* with
ConvertMapWithMetatilesRead(data, width, height) ==
    LET result == ReadAndValidateMapData(data, width, height)
    IN  IF result.status # "ok" THEN result
        ELSE IF ~validate_map_dimensions(result.width, result.height)
        THEN Result("ValueError", <<>>, result.width, result.height)
        ELSE result

\* convert_map, lines 170-182
ConvertMapRead(data, width, height) ==
    IF ~validate_map_dimensions(width, height)
    THEN Result("ValueError", <<>>, width, height)
    ELSE LET r == MapReader_read_map_bin(data, width, height)
         IN  IF r.status = "ok" THEN r ELSE Result("None", <<>>, width, height)

\* MapReader.read_metatiles_with_attributes on the bytes of metatiles.bin
read_metatiles_with_attributes(data) ==
    LET records == DecodeRecords(data)
    IN  [k \in 1..Len(records) |->
            <<BitAnd(records[k], 1023),
              BitAnd(ShiftRight(records[k], 10), 3),
              BitAnd(ShiftRight(records[k], 12), 15)>>]

\* MapReader.read_metatiles
read_metatiles(data) ==
    LET records == DecodeRecords(data)
    IN  [k \in 1..Len(records) |-> BitAnd(records[k], 1023)]

\* MapReader.read_metatile_attributes: the layer type of metatile i at index i+1
read_metatile_attributes(data) ==
    LET records == DecodeRecords(data)
    IN  [k \in 1..Len(records) |-> BitAnd(ShiftRight(records[k], 12), 15)]

\* a collision field shifted like the elevation field
extract_collision_shifted_12(entry) == ShiftRight(BitAnd(entry, COLLISION_MASK), 12)

extract_elevation(entry) == ShiftRight(BitAnd(entry, ELEVATION_MASK), 12)

extract_collision(entry) == ShiftRight(BitAnd(entry, COLLISION_MASK), 10)

\* byte j (1-based) of the file with this seed
FileByte(seed, j) == (seed * 101 + j * 37) % 256

FileSeeds == {0, 3}

\* the files of the reader specification: every length up to one byte more
\* than the largest layout needs
FileChoices ==
    {[j \in 1..n |-> FileByte(seed, j)] :
        seed \in FileSeeds, n \in 0..(2 * MaxWidth * MaxHeight + 1)}

InitRead ==
    /\ pc = "read"
    /\ map_entries = <<>>
    /\ primary_metatiles_with_attrs = <<>>
    /\ secondary_metatiles_with_attrs = <<>>
    /\ primary_attributes = <<>>
    /\ secondary_attributes = <<>>
    /\ file_data \in FileChoices
    /\ layout_width \in 1..MaxWidth
    /\ layout_height \in 1..MaxHeight
    /\ Blank
    /\ route_in = [tile_id |-> 0, palette_index |-> 0, tileset_name_for_tile |-> primary_tileset,
                   used |-> EmptyUsed]
    /\ route_out = EmptyUsed
    /\ NoValidate
    /\ NoCall

\* one reader is called on the file
Read(op, out) ==
    /\ pc = "read"
    /\ pc' = "read_done"
    /\ read_op' = op
    /\ read_out' = out
    /\ UNCHANGED <<callVars, inputVars, tileVars, gidVars, animVars, routeVars, validateVars>>

ReadMapBinMethod ==
    Read("MapReader.read_map_bin",
         MapReader_read_map_bin(file_data, layout_width, layout_height))

ReadMapBinFunction ==
    Read("metatile.read_map_bin", read_map_bin(file_data, layout_width, layout_height))

ReadForConvertMapWithMetatiles ==
    Read("convert_map_with_metatiles",
         ConvertMapWithMetatilesRead(file_data, layout_width, layout_height))

ReadForConvertMap ==
    Read("convert_map", ConvertMapRead(file_data, layout_width, layout_height))

ReadMetatilesWithAttributes ==
    Read("read_metatiles_with_attributes",
         Result("ok", read_metatiles_with_attributes(file_data), 0, 0))

ReadMetatiles ==
    Read("read_metatiles", Result("ok", read_metatiles(file_data), 0, 0))

ReadMetatileAttributes ==
    Read("read_metatile_attributes", Result("ok", read_metatile_attributes(file_data), 0, 0))

NextRead ==
    \/ ReadMapBinMethod
    \/ ReadMapBinFunction
    \/ ReadForConvertMapWithMetatiles
    \/ ReadForConvertMap
    \/ ReadMetatilesWithAttributes
    \/ ReadMetatiles
    \/ ReadMetatileAttributes

SpecRead == InitRead /\ [][NextRead]_vars

(* ---------------------------------------------------------------------- *)
(* Decoding one 16-bit word                                                *)
(* ---------------------------------------------------------------------- *)
\* every 16-bit word, as the two bytes of a file
InitWord ==
    /\ pc = "decode"
    /\ map_entries = <<>>
    /\ primary_metatiles_with_attrs = <<>>
    /\ secondary_metatiles_with_attrs = <<>>
    /\ primary_attributes = <<>>
    /\ secondary_attributes = <<>>
    /\ file_data \in {LittleEndian(<<w>>) : w \in 0..(2 ^ 16 - 1)}
    /\ layout_width = 1
    /\ layout_height = 1
    /\ Blank
    /\ route_in = [tile_id |-> 0, palette_index |-> 0, tileset_name_for_tile |-> primary_tileset,
                   used |-> EmptyUsed]
    /\ route_out = EmptyUsed
    /\ NoValidate
    /\ NoCall

\* the word is read as the entry of a 1x1 map grid and split into its fields
DecodeMapEntry ==
    /\ pc = "decode"
    /\ pc' = "decoded"
    /\ read_op' = "map_entry"
    /\ \E grid \in {MapReader_read_map_bin(file_data, layout_width, layout_height).value} :
          read_out' = Result("ok", <<extract_metatile_id(grid[1][1]),
                                     extract_collision(grid[1][1]),
                                     extract_elevation(grid[1][1])>>, 1, 1)
    /\ UNCHANGED <<callVars, inputVars, tileVars, gidVars, animVars, routeVars, validateVars>>

\* the word is read as a tile reference of metatiles.bin, by both readers
DecodeTileReference ==
    /\ pc = "decode"
    /\ pc' = "decoded"
    /\ read_op' = "tile_reference"
    /\ read_out' = Result("ok", <<read_metatiles_with_attributes(file_data),
                                  read_metatiles(file_data)>>, 0, 0)
    /\ UNCHANGED <<callVars, inputVars, tileVars, gidVars, animVars, routeVars, validateVars>>

NextWord ==
    \/ DecodeMapEntry
    \/ DecodeTileReference

SpecWord == InitWord /\ [][NextWord]_vars

(* ---------------------------------------------------------------------- *)
(* single calls: no conversion under way                                   *)
(* ---------------------------------------------------------------------- *)
NoPipeline ==
    /\ map_entries = <<>>
    /\ primary_metatiles_with_attrs = <<>>
    /\ secondary_metatiles_with_attrs = <<>>
    /\ primary_attributes = <<>>
    /\ secondary_attributes = <<>>
    /\ file_data = <<>>
    /\ layout_width = 0
    /\ layout_height = 0
    /\ Blank
    /\ route_in = [tile_id |-> 0, palette_index |-> 0, tileset_name_for_tile |-> primary_tileset,
                   used |-> EmptyUsed]
    /\ route_out = EmptyUsed
    /\ NoValidate

Least(S) == CHOOSE x \in S : \A y \in S : x <= y

(* ---------------------------------------------------------------------- *)
(* unpack_metatile_data and unpack_metatile_data_with_attrs on any table   *)
(* ---------------------------------------------------------------------- *)
\* metatile.py 208-225: create_tile_dict reads tiles[0] to tiles[3] of the
\* list of every layer; a shorter list raises IndexError
convert_metatile_to_tile_layers_raises(metatile_id, metatile_data, layer_type) ==
    LET split == split_metatile_to_layers(
                     unpack_metatile_data(metatile_id, metatile_data), layer_type)
    IN  \E l \in 1..3 : Len(split[l]) < 4

\* the longest table: two metatiles and one entry more
MaxTableLen == 17

\* tables of every length, entry i holding tile i
UnpackChoices ==
    [metatile_id : -1..3,
     metatile_data : {[i \in 1..n |-> i] : n \in 0..MaxTableLen},
     layer_type : {NORMAL, COVERED, SPLIT}]

InitUnpack ==
    /\ pc = "unpack"
    /\ NoPipeline
    /\ call_in \in UnpackChoices
    /\ call_out = <<>>

\* unpack_metatile_data and then convert_metatile_to_tile_layers
UnpackPlain ==
    /\ pc = "unpack"
    /\ pc' = "unpacked"
    /\ call_out' =
          [op |-> "unpack_metatile_data",
           tiles |-> unpack_metatile_data(call_in.metatile_id, call_in.metatile_data),
           status |-> IF convert_metatile_to_tile_layers_raises(
                             call_in.metatile_id, call_in.metatile_data, call_in.layer_type)
                      THEN "IndexError" ELSE "ok"]
    /\ UNCHANGED <<inputVars, tileVars, gidVars, animVars, routeVars, readVars, validateVars,
                   call_in>>

\* unpack_metatile_data_with_attrs on the table of (tile_id, flip, palette);
\* create_tile_dict of the with_attrs conversion tests tile_idx < len
UnpackWithAttrs ==
    /\ pc = "unpack"
    /\ pc' = "unpacked"
    /\ call_out' =
          [op |-> "unpack_metatile_data_with_attrs",
           tiles |-> unpack_metatile_data_with_attrs(
                         call_in.metatile_id,
                         [i \in 1..Len(call_in.metatile_data) |-> R(call_in.metatile_data[i])]),
           status |-> "ok"]
    /\ UNCHANGED <<inputVars, tileVars, gidVars, animVars, routeVars, readVars, validateVars,
                   call_in>>

NextUnpack ==
    \/ UnpackPlain
    \/ UnpackWithAttrs

SpecUnpack == InitUnpack /\ [][NextUnpack]_vars

(* ---------------------------------------------------------------------- *)
(* convert_map: the tiles of a whole width x height grid in one layer      *)
(* ---------------------------------------------------------------------- *)
MaxGridWidth == 3
MaxGridHeight == 3

\* the tile in corner i (0 top-left, 1 top-right, 2 bottom-left, 3
\* bottom-right) of the half of cell (x, y): a different non-zero id for
\* every cell and corner
GridTile(x, y, i, width) == (y * width + x) * 4 + i + 1

\* lines 230-323 over the cells in the order of the two for loops, every
\* cell a primary metatile whose half goes to this layer
RECURSIVE PlaceGrid(_, _, _, _, _)
PlaceGrid(data, cell, width, height, with_attrs) ==
    IF cell >= width * height THEN data
    ELSE LET x == cell % width
             y == cell \div width
             tiles == [i \in 1..4 |-> GridTile(x, y, i - 1, width)]
             simple == CreateTileDict(tiles, x, y)
             dict == IF with_attrs
                     THEN CreateTileDictWithAttrs([i \in 1..4 |-> R(tiles[i])], x, y)
                     ELSE [p \in DOMAIN simple |-> <<simple[p], 0>>]
             nxt == ApplyTilesToLayer(data, dict, primary_tileset, width * 2, height * 2)
         IN  PlaceGrid(nxt, cell + 1, width, height, with_attrs)

GridChoices ==
    {c \in [width : 1..MaxGridWidth, height : 1..MaxGridHeight,
            x : 0..(MaxGridWidth - 1), y : 0..(MaxGridHeight - 1), with_attrs : BOOLEAN] :
        c.x < c.width /\ c.y < c.height}

InitGrid ==
    /\ pc = "grid"
    /\ NoPipeline
    /\ call_in \in GridChoices
    /\ call_out = <<>>

\* the layer after the whole map was converted
ConvertGrid ==
    /\ pc = "grid"
    /\ pc' = "grid_done"
    /\ call_out' = PlaceGrid(Zeros(call_in.width * 2 * call_in.height * 2), 0,
                             call_in.width, call_in.height, call_in.with_attrs)
    /\ UNCHANGED <<inputVars, tileVars, gidVars, animVars, routeVars, readVars, validateVars,
                   call_in>>

NextGrid == ConvertGrid

SpecGrid == InitGrid /\ [][NextGrid]_vars

(* ---------------------------------------------------------------------- *)
(* AnimationScanner.extract_tiles_from_frame                               *)
(* ---------------------------------------------------------------------- *)
actual_tile_size == 8

MaxNumTiles == 5

\* an 8x8 tile cut out of the frame at (x, y); pixels of the box outside
\* the frame come out transparent
Crop(x, y) == [kind |-> "crop", x |-> x, y |-> y]

\* Image.new('RGBA', (8, 8), (0, 0, 0, 0))
TransparentTile == [kind |-> "transparent", x |-> 0, y |-> 0]

\* a 16x16 frame handed back whole
WholeFrame == [kind |-> "metatile", x |-> 0, y |-> 0]

\* a fallback that hands back what the frame holds
FallbackTilesUnpadded(num_tiles, tiles_per_row, total_available_tiles) ==
    [i \in 1..(IF num_tiles < total_available_tiles THEN num_tiles
               ELSE total_available_tiles) |->
        Crop(((i - 1) % tiles_per_row) * actual_tile_size,
             ((i - 1) \div tiles_per_row) * actual_tile_size)]

\* lines 454-465: the tiles the frame holds, then empty tiles up to num_tiles
FallbackTiles(num_tiles, tiles_per_row, total_available_tiles) ==
    [i \in 1..num_tiles |->
        IF i <= total_available_tiles
        THEN Crop(((i - 1) % tiles_per_row) * actual_tile_size,
                  ((i - 1) \div tiles_per_row) * actual_tile_size)
        ELSE TransparentTile]

\* lines 353-468; a frame is [width, height, readable], and an unreadable
\* frame makes Image.open raise
extract_tiles_from_frame(frame, num_tiles) ==
    IF ~frame.readable THEN <<>>
    ELSE IF frame.width = 16 /\ frame.height = 16 THEN <<WholeFrame>>
    ELSE LET tiles_per_row == IF frame.width >= actual_tile_size
                              THEN frame.width \div actual_tile_size ELSE 1
             tiles_per_col == IF frame.height >= actual_tile_size
                              THEN frame.height \div actual_tile_size ELSE 1
             total_available_tiles == tiles_per_row * tiles_per_col
             is_single_column == tiles_per_row = 1 /\ tiles_per_col >= num_tiles
             is_single_row == tiles_per_col = 1 /\ tiles_per_row >= num_tiles
             is_two_column_grid == tiles_per_row = 2 /\ total_available_tiles >= num_tiles
             is_general_grid == total_available_tiles >= num_tiles
         IN  IF is_single_column
             THEN [i \in 1..num_tiles |->
                      LET y == (i - 1) * actual_tile_size
                      IN  IF y + actual_tile_size <= frame.height
                          THEN Crop(0, y) ELSE TransparentTile]
             ELSE IF is_single_row
             THEN [i \in 1..num_tiles |->
                      LET x == (i - 1) * actual_tile_size
                      IN  IF x + actual_tile_size <= frame.width
                          THEN Crop(x, 0) ELSE TransparentTile]
             ELSE IF is_two_column_grid \/ is_general_grid
             THEN [i \in 1..num_tiles |->
                      LET x == ((i - 1) % tiles_per_row) * actual_tile_size
                          y == ((i - 1) \div tiles_per_row) * actual_tile_size
                      IN  IF x + actual_tile_size <= frame.width
                             /\ y + actual_tile_size <= frame.height
                          THEN Crop(x, y) ELSE TransparentTile]
             ELSE FallbackTiles(num_tiles, tiles_per_row, total_available_tiles)

\* the frame loop of extract_all_animation_tiles, lines 531-567
RECURSIVE ExtractFrames(_, _, _)
ExtractFrames(acc, frame_paths, num_tiles) ==
    IF frame_paths = <<>> THEN acc
    ELSE LET frame == Head(frame_paths)
             nxt == IF ~frame.readable THEN acc
                    ELSE IF frame.width = 16 /\ frame.height = 16
                    THEN [frames |-> Append(acc.frames, WholeFrame), is_metatile |-> TRUE]
                    ELSE [acc EXCEPT !.frames = @ \o extract_tiles_from_frame(frame, num_tiles)]
         IN  ExtractFrames(nxt, Tail(frame_paths), num_tiles)

\* frame images: narrower or lower than a tile, tile sized, 16 wide or
\* high, three tiles wide or high; and a file that is no image
FrameChoices ==
    [width : {4, 8, 16, 24}, height : {4, 8, 16, 24}, readable : {TRUE}]
        \cup {[width |-> 0, height |-> 0, readable |-> FALSE]}

InitFrames ==
    /\ pc = "frames"
    /\ NoPipeline
    /\ call_in \in [frame_paths : {<<f>> : f \in FrameChoices}
                                    \cup {<<f, g>> : f \in FrameChoices, g \in FrameChoices},
                    num_tiles : 0..MaxNumTiles]
    /\ call_out = <<>>

\* extract_tiles_from_frame on the first frame
ExtractTilesFromFrame ==
    /\ pc = "frames"
    /\ pc' = "frames_done"
    /\ call_out' = [op |-> "extract_tiles_from_frame",
                    frames |-> extract_tiles_from_frame(call_in.frame_paths[1],
                                                        call_in.num_tiles),
                    is_metatile |-> FALSE]
    /\ UNCHANGED <<inputVars, tileVars, gidVars, animVars, routeVars, readVars, validateVars,
                   call_in>>

\* extract_all_animation_tiles on the frames of one animation
ExtractAllAnimationTiles ==
    /\ pc = "frames"
    /\ pc' = "frames_done"
    /\ \E r \in {ExtractFrames([frames |-> <<>>, is_metatile |-> FALSE],
                               call_in.frame_paths, call_in.num_tiles)} :
          call_out' = [op |-> "extract_all_animation_tiles", frames |-> r.frames,
                       is_metatile |-> r.is_metatile]
    /\ UNCHANGED <<inputVars, tileVars, gidVars, animVars, routeVars, readVars, validateVars,
                   call_in>>

NextFrames ==
    \/ ExtractTilesFromFrame
    \/ ExtractAllAnimationTiles

SpecFrames == InitFrames /\ [][NextFrames]_vars

(* ---------------------------------------------------------------------- *)
(* MapReader.read_map_bin on a path                                        *)
(* ---------------------------------------------------------------------- *)
\* what a path names on disk
PathKinds == {"missing", "file", "directory"}

\* validators.validate_path; TRUE when it returns, FALSE when it raises
\* ValueError
validate_path(path, must_exist, must_be_file, must_be_dir) ==
    /\ ~(must_exist /\ path = "missing")
    /\ ~(must_be_file /\ path # "file")
    /\ ~(must_be_dir /\ path # "directory")

\* MapReader.read_map_bin, lines 85-113, from the path on
MapReader_read_map_bin_path(path, data, width, height) ==
    IF ~validate_path(path, FALSE, TRUE, FALSE)
    THEN Result("ValueError", <<>>, width, height)
    ELSE IF ~validate_map_dimensions(width, height)
    THEN Result("ValueError", <<>>, width, height)
    ELSE IF path = "missing"
    THEN Result("FileNotFoundError", <<>>, width, height)
    ELSE MapReader_read_map_bin(data, width, height)

\* widths and heights around both ends of the accepted range
DimensionChoices(largest) == {0, max_size + 1} \cup (1..largest)

InitPath ==
    /\ pc = "path"
    /\ NoPipeline
    /\ call_in \in [path : PathKinds, data : FileChoices,
                    width : DimensionChoices(MaxWidth), height : DimensionChoices(MaxHeight)]
    /\ call_out = <<>>

ReadMapBinPath ==
    /\ pc = "path"
    /\ pc' = "path_read"
    /\ call_out' = MapReader_read_map_bin_path(call_in.path, call_in.data,
                                               call_in.width, call_in.height)
    /\ UNCHANGED <<inputVars, tileVars, gidVars, animVars, routeVars, readVars, validateVars,
                   call_in>>

NextPath == ReadMapBinPath

SpecPath == InitPath /\ [][NextPath]_vars

(* ---------------------------------------------------------------------- *)
(* MapConverter.remap_map_tiles                                            *)
(* ---------------------------------------------------------------------- *)
\* str.lower() over the tileset names in use
Lower(name) == IF name = "General" THEN "general" ELSE name

\* lines 588-603: tileset_info, a dict keyed by the mapping key, as the
\* sequence of its entries in insertion order; a tileset takes the first
\* mapping key that equals its file stem in lower case
RECURSIVE BuildTilesetInfo(_, _, _)
BuildTilesetInfo(tileset_info, tilesets, tile_mappings) ==
    IF tilesets = <<>> THEN tileset_info
    ELSE LET tileset == Head(tilesets)
             matching == {k \in 1..Len(tile_mappings) :
                             Lower(tile_mappings[k].key) = Lower(tileset.stem)}
         IN  IF matching = {}
             THEN BuildTilesetInfo(tileset_info, Tail(tilesets), tile_mappings)
             ELSE LET found == tile_mappings[Least(matching)]
                      entry == [key |-> found.key, firstgid |-> tileset.firstgid,
                                mapping |-> found.mapping]
                      at == {j \in 1..Len(tileset_info) : tileset_info[j].key = entry.key}
                  IN  BuildTilesetInfo(IF at = {} THEN Append(tileset_info, entry)
                                       ELSE [tileset_info EXCEPT ![Least(at)] = entry],
                                       Tail(tilesets), tile_mappings)

\* a mapping knows the tile under (tile_id, palette) or, in the old format,
\* under the tile id alone (written <<tile_id>>)
InMapping(mapping, old_tile_id, palette_index) ==
    \/ <<old_tile_id, palette_index>> \in DOMAIN mapping
    \/ <<old_tile_id>> \in DOMAIN mapping

\* new_gid = firstgid + new_tile_id - 1, lines 671-683
NewGid(info, old_tile_id, palette_index) ==
    LET new_tile_id == IF <<old_tile_id, palette_index>> \in DOMAIN info.mapping
                       THEN info.mapping[<<old_tile_id, palette_index>>]
                       ELSE info.mapping[<<old_tile_id>>]
    IN  info.firstgid + new_tile_id - 1

\* lines 643-700: one entry of a layer; tileset_name "" is None
RemapTile(old_tile_id, tileset_name, palette_index, tileset_info) ==
    IF old_tile_id = 0 THEN 0
    ELSE IF tileset_name # ""
    THEN LET matching == {j \in 1..Len(tileset_info) :
                             Lower(tileset_info[j].key) = Lower(tileset_name)}
         IN  IF matching = {} THEN old_tile_id
             ELSE LET info == tileset_info[Least(matching)]
                  IN  IF InMapping(info.mapping, old_tile_id, palette_index)
                      THEN NewGid(info, old_tile_id, palette_index)
                      ELSE old_tile_id
    ELSE LET knowing == {j \in 1..Len(tileset_info) :
                            InMapping(tileset_info[j].mapping, old_tile_id, palette_index)}
         IN  IF knowing = {} THEN old_tile_id
             ELSE NewGid(tileset_info[Least(knowing)], old_tile_id, palette_index)

\* a layer property holding JSON: absent, not parseable, or a list
Property(kind, value) == [kind |-> kind, value |-> value]

\* lines 611-704: one layer; json.loads raises on a malformed property
RemapLayer(layer, tileset_info) ==
    IF layer.type # "tilelayer" \/ layer.data = <<>> THEN [raised |-> FALSE, layer |-> layer]
    ELSE IF layer.tileset_info.kind = "malformed" \/ layer.palette_info.kind = "malformed"
    THEN [raised |-> TRUE, layer |-> layer]
    ELSE LET layer_tilesets == IF layer.tileset_info.kind = "list"
                               THEN layer.tileset_info.value
                               ELSE [i \in 1..Len(layer.data) |-> ""]
             layer_palettes == IF layer.palette_info.kind = "list"
                               THEN layer.palette_info.value
                               ELSE [i \in 1..Len(layer.data) |-> 0]
             data == [i \in 1..Len(layer.data) |->
                         RemapTile(layer.data[i],
                                   IF i <= Len(layer_tilesets) THEN layer_tilesets[i] ELSE "",
                                   IF i <= Len(layer_palettes) THEN layer_palettes[i] ELSE 0,
                                   tileset_info)]
         IN  [raised |-> FALSE,
              layer |-> [layer EXCEPT !.data = data,
                                      !.tileset_info = Property("absent", <<>>),
                                      !.palette_info = Property("absent", <<>>)]]

\* lines 711-717: the handler reads the name remap_map_tiles, which is a
\* method of the class and no name of the module or of the function
ExceptHandler == "NameError"

\* lines 576-717; map_file is what load_json gives, file what the map file
\* holds when the call is over
remap_map_tiles(map_file, tile_mappings) ==
    IF ~map_file.loaded \/ map_file.tilesets = <<>>
    THEN [returned |-> "False", file |-> map_file]
    ELSE LET tileset_info == BuildTilesetInfo(<<>>, map_file.tilesets, tile_mappings)
             remapped == [k \in 1..Len(map_file.layers) |->
                             RemapLayer(map_file.layers[k], tileset_info)]
         IN  IF tileset_info = <<>>
             THEN [returned |-> "False", file |-> map_file]
             ELSE IF \E k \in 1..Len(remapped) : remapped[k].raised
             THEN [returned |-> ExceptHandler, file |-> map_file]
             ELSE [returned |-> "True",
                   file |-> [map_file EXCEPT
                                !.layers = [k \in 1..Len(remapped) |-> remapped[k].layer]]]

TilesetsChoices ==
    { <<>>,
      <<[stem |-> "general", firstgid |-> 1]>>,
      <<[stem |-> "General", firstgid |-> 1], [stem |-> "petalburg", firstgid |-> 513]>> }

TileMappingsChoices ==
    { <<>>,
      <<[key |-> "General", mapping |-> (<<5, 0>> :> 1 @@ <<6, 1>> :> 2)]>>,
      <<[key |-> "general", mapping |-> (<<5, 0>> :> 1 @@ <<6, 1>> :> 2)],
        [key |-> "petalburg", mapping |-> (<<88, 0>> :> 1 @@ <<7>> :> 3)]>>,
      <<[key |-> "rustboro", mapping |-> (<<5, 0>> :> 1 @@ <<6, 1>> :> 2)]>> }

LayerChoices ==
    [type : {"tilelayer"},
     data : {<<>>, <<0, 5>>, <<5, 88>>, <<6, 7>>},
     tileset_info : {Property("absent", <<>>), Property("malformed", <<>>),
                     Property("list", <<"general", "petalburg">>),
                     Property("list", <<"General">>)},
     palette_info : {Property("absent", <<>>), Property("malformed", <<>>),
                     Property("list", <<0, 1>>)}]

\* an object layer, which remapping skips
ObjectLayer ==
    [type |-> "objectgroup", data |-> <<>>, tileset_info |-> Property("absent", <<>>),
     palette_info |-> Property("absent", <<>>)]

MapFileChoices ==
    { [loaded |-> l, tilesets |-> t, layers |-> <<layer, ObjectLayer>>] :
        l \in BOOLEAN, t \in TilesetsChoices, layer \in LayerChoices }

InitRemap ==
    /\ pc = "remap"
    /\ NoPipeline
    /\ call_in \in [map_file : MapFileChoices, tile_mappings : TileMappingsChoices]
    /\ call_out = <<>>

RemapMapTiles ==
    /\ pc = "remap"
    /\ pc' = "remapped"
    /\ call_out' = remap_map_tiles(call_in.map_file, call_in.tile_mappings)
    /\ UNCHANGED <<inputVars, tileVars, gidVars, animVars, routeVars, readVars, validateVars,
                   call_in>>

NextRemap == RemapMapTiles

SpecRemap == InitRemap /\ [][NextRemap]_vars



(* ---------------------------------------------------------------------- *)
(* Properties                                                              *)
(* ---------------------------------------------------------------------- *)
GidStage == pc \in {"layers_done", "tileset_done"}

\* C1: for the layer types NORMAL, COVERED and SPLIT the halves of a metatile
\* follow the fixed table, NORMAL: back empty, mid = bottom, front = top;
\* COVERED: back = bottom, mid = top, front empty; SPLIT: back = bottom,
\* mid empty, front = top.  This is what split_metatile_to_layers and
\* convert_metatile_to_tile_layers_with_attrs return for every metatile of
\* the tables (compared when the conversion starts: the tables never
\* change), and what _build_map_layers writes for every cell of the map;
\* the third layer is zero (has no tile) for that cell.
C1_LayerRoutingTable ==
    LET table == [lt \in {NORMAL, COVERED, SPLIT} |->
                    IF lt = NORMAL THEN <<"empty", "bottom", "top">>
                    ELSE IF lt = COVERED THEN <<"bottom", "top", "empty">>
                    ELSE <<"bottom", "empty", "top">>]
        pick(what, bottom, top, empty) ==
            IF what = "bottom" THEN bottom ELSE IF what = "top" THEN top ELSE empty
        dictOf(refs) ==
            LET ps == {i \in 0..3 : i < Len(refs) /\ refs[i + 1][1] # 0}
            IN  {<<2 + (i % 2), i \div 2, refs[i + 1][1], refs[i + 1][3]>> : i \in ps}
        graph(d) == {<<q[1], q[2], d[q][1], d[q][2]>> : q \in DOMAIN d}
    IN  /\ pc = "start" =>
           \A lt \in {NORMAL, COVERED, SPLIT} :
           \A tbl \in {primary_metatiles_with_attrs, secondary_metatiles_with_attrs} :
           \A m \in 0..1 :
              (m + 1) * 8 <= Len(tbl) =>
                \E bottom \in {[i \in 1..4 |-> tbl[m * 8 + i]]} :
                \E top \in {[i \in 1..4 |-> tbl[m * 8 + 4 + i]]} :
                \E s \in {split_metatile_to_layers(
                              unpack_metatile_data(m, [i \in 1..Len(tbl) |-> tbl[i][1]]), lt)} :
                \E d \in {convert_metatile_to_tile_layers_with_attrs(m, tbl, lt, 1, 0)} :
                   \A L \in 1..3 :
                      /\ s[L] = pick(table[lt][L], [i \in 1..4 |-> bottom[i][1]],
                                     [i \in 1..4 |-> top[i][1]], <<0, 0, 0, 0>>)
                      /\ graph(d[L]) = dictOf(pick(table[lt][L], bottom, top, <<>>))
        /\ GidStage =>
             \A x \in 1..Len(map_entries) :
                LET id == map_entries[x] % 1024
                    own == IF id < 512 THEN <<id, primary_tileset, primary_attributes>>
                           ELSE <<id - 512, secondary_tileset, secondary_attributes>>
                    lt == IF own[1] + 1 \in DOMAIN own[3] THEN own[3][own[1] + 1] ELSE 0
                    b == Get(metatile_to_gid, <<own[1], own[2], lt, FALSE>>, 0)
                    t == Get(metatile_to_gid, <<own[1], own[2], lt, TRUE>>, 0)
                IN  /\ lt \in {NORMAL, COVERED, SPLIT}
                    /\ layer_data_bg3[x] = pick(table[lt][1], b, t, 0)
                    /\ layer_data_bg2[x] = pick(table[lt][2], b, t, 0)
                    /\ layer_data_bg1[x] = pick(table[lt][3], b, t, 0)

\* a map with a COVERED cell and a SPLIT cell, both with images
C1_Witness ==
    /\ pc = "layers_done"
    /\ \E x \in 1..Len(map_entries) :
          layer_data_bg3[x] > 0 /\ layer_data_bg2[x] > 0 /\ layer_data_bg1[x] = 0
    /\ \E y \in 1..Len(map_entries) :
          layer_data_bg3[y] > 0 /\ layer_data_bg2[y] = 0 /\ layer_data_bg1[y] > 0

\* C2: a metatile whose layer type is outside {0, 1, 2} is converted as
\* NORMAL and the conversion does not raise: neither convert_map nor
\* convert_map_with_metatiles ends in an exception.
C2_UnknownLayerTypeCompletes ==
    pc \notin {"tiles_raised", "gid_raised"}

\* C3: add_used_tile_with_palette records a tile of a primary-owned metatile
\* in the primary bank with its id unchanged, a tile of a secondary-owned
\* metatile in the primary bank unchanged when tile_id < 512 and in the
\* secondary bank as tile_id - 512 otherwise; the other bank is left as it was.
C3_TileRouting ==
    pc = "routed" =>
        LET t == route_in.tile_id
            p == route_in.palette_index
            before == route_in.used
        IN  IF route_in.tileset_name_for_tile = primary_tileset \/ t < 512
            THEN /\ route_out.primary = before.primary \cup {t}
                 /\ route_out.primary_pal = before.primary_pal \cup {<<t, p>>}
                 /\ route_out.secondary = before.secondary
                 /\ route_out.secondary_pal = before.secondary_pal
            ELSE /\ route_out.secondary = before.secondary \cup {t - 512}
                 /\ route_out.secondary_pal = before.secondary_pal \cup {<<t - 512, p>>}
                 /\ route_out.primary = before.primary
                 /\ route_out.primary_pal = before.primary_pal

\* tile 600 of a secondary-owned metatile was recorded as secondary tile 88
C3_Witness ==
    /\ pc = "routed"
    /\ route_in.tile_id = 600
    /\ route_in.tileset_name_for_tile = secondary_tileset
    /\ route_in.used = EmptyUsed
    /\ route_out.secondary = {88}
    /\ route_out.primary = {}

\* C4: every GID allocation request (map metatiles, then border metatiles)
\* for bytes already in image_to_gid returns the GID recorded for them and
\* leaves image_to_gid and next_gid unchanged; a request for novel bytes
\* returns next_gid, records it and increases next_gid by exactly one.  The
\* requests act on one image_to_gid / next_gid pair that starts empty at 1.
C4_AllocationDedup ==
    /\ \A i \in 1..Len(alloc_log) :
          LET e == alloc_log[i]
          IN  /\ IF e.bytes \in DOMAIN e.before_map
                 THEN /\ e.gid = e.before_map[e.bytes]
                      /\ e.after_map = e.before_map
                      /\ e.after_next = e.before_next
                 ELSE /\ e.gid = e.before_next
                      /\ DOMAIN e.after_map = DOMAIN e.before_map \cup {e.bytes}
                      /\ e.after_map[e.bytes] = e.gid
                      /\ \A b \in DOMAIN e.before_map : e.after_map[b] = e.before_map[b]
                      /\ e.after_next = e.before_next + 1
              /\ IF i = 1
                 THEN DOMAIN e.before_map = {} /\ e.before_next = 1
                 ELSE /\ e.before_map = alloc_log[i - 1].after_map
                      /\ e.before_next = alloc_log[i - 1].after_next
    /\ Len(alloc_log) > 0 =>
          /\ image_to_gid = alloc_log[Len(alloc_log)].after_map
          /\ next_gid = alloc_log[Len(alloc_log)].after_next

\* after the map metatiles, a border metatile with byte-identical halves:
\* its bottom image is novel, its top image repeats it
C4_Witness ==
    /\ \E i \in 1..(Len(alloc_log) - 1) :
          /\ alloc_log[i].site = "border"
          /\ alloc_log[i].bytes \notin DOMAIN alloc_log[i].before_map
          /\ alloc_log[i + 1].site = "border"
          /\ alloc_log[i + 1].bytes = alloc_log[i].bytes
          /\ alloc_log[i + 1].gid = alloc_log[i].gid
    /\ \E j \in 1..Len(alloc_log) : alloc_log[j].site = "map"

\* C5: image_to_gid is injective, its values are exactly 1..next_gid-1, no
\* image has GID 0; every GID of metatile_to_gid is the GID of an image, and
\* the entries of the layer data and of the border are such GIDs or 0,
\* where 0 stands for no tile.
C5_GidsDense ==
    /\ \A a, b \in DOMAIN image_to_gid : image_to_gid[a] = image_to_gid[b] => a = b
    /\ {image_to_gid[b] : b \in DOMAIN image_to_gid} = 1..(next_gid - 1)
    /\ \A k \in DOMAIN metatile_to_gid :
          /\ metatile_to_gid[k] \in 1..(next_gid - 1)
          /\ image_to_gid[used_metatiles[<<k[1], k[2], k[3]>>][IF k[4] THEN 2 ELSE 1]]
             = metatile_to_gid[k]
    /\ \A c \in DOMAIN border_gids : border_gids[c] \in 0..(next_gid - 1)
    /\ \A x \in 1..Len(layer_data_bg3) :
          /\ layer_data_bg3[x] \in 0..(next_gid - 1)
          /\ layer_data_bg2[x] \in 0..(next_gid - 1)
          /\ layer_data_bg1[x] \in 0..(next_gid - 1)

\* map and border allocations happened, the border has a corner without a
\* metatile and the layers have cells without a tile
C5_Witness ==
    /\ pc = "layers_done"
    /\ next_gid >= 4
    /\ \E i \in 1..Len(alloc_log) : alloc_log[i].site = "border"
    /\ \E c \in DOMAIN border_gids : border_gids[c] = 0
    /\ \E x \in 1..Len(layer_data_bg3) : layer_data_bg3[x] = 0

\* the GIDs that appear in a layer cell or in a border entry
PlacedGids ==
    ({layer_data_bg3[x] : x \in 1..Len(layer_data_bg3)}
     \cup {layer_data_bg2[x] : x \in 1..Len(layer_data_bg2)}
     \cup {layer_data_bg1[x] : x \in 1..Len(layer_data_bg1)}
     \cup {border_gids[c] : c \in DOMAIN border_gids}) \ {0}

HalfRefs(key, half) ==
    LET tiles == metatile_composition[key]
    IN  IF half = "bottom" THEN {tiles[i] : i \in 1..4} ELSE {tiles[i] : i \in 5..8}

\* the half has a tile reference inside the tile range of an animation
\* definition, [base, base + num_tiles), shifted by 512 for is_secondary
AnimatedHalf(key, half) ==
    \E ref \in HalfRefs(key, half) :
    \E i \in 1..Len(all_anim_defs) :
        LET d == all_anim_defs[i][1]
            base == IF d.is_secondary THEN d.base_tile_id + 512 ELSE d.base_tile_id
        IN  base <= ref[1] /\ ref[1] < base + d.num_tiles

HalfGid(key, half) == Get(metatile_to_gid, <<key[1], key[2], key[3], half = "top">>, 0)

\* C7: the id of every timeline, generated or returned, is gid-1 of a GID in
\* used_gids; that GID is the one allocated to the half of the metatile the
\* timeline was built from, and that half has a tile reference inside the
\* tile range of an animation definition: no timeline sits on the GID of
\* another half of that metatile.
C7_TimelineOnTriggeringGid ==
    pc = "tileset_done" =>
        \A i \in 1..Len(raw_animations) :
            LET a == raw_animations[i]
            IN  /\ (a.id + 1) \in used_gids
                /\ a.key \in DOMAIN metatile_composition
                /\ HalfGid(a.key, a.half) = a.id + 1
                /\ AnimatedHalf(a.key, a.half)
                /\ \E j \in 1..Len(animations) : animations[j].id = a.id

\* a metatile with different GIDs for its halves, only one of them animated
\* and only that one with a timeline
C7_Witness ==
    /\ pc = "tileset_done"
    /\ \E i \in 1..Len(animations) :
          LET a == animations[i]
              other == IF a.half = "top" THEN "bottom" ELSE "top"
          IN  /\ a.kind = "strip"
              /\ HalfGid(a.key, other) # a.id + 1
              /\ HalfGid(a.key, other) \in used_gids
              /\ ~AnimatedHalf(a.key, other)
              /\ \A j \in 1..Len(animations) : animations[j].id # HalfGid(a.key, other) - 1

\* the metatile takes the strip branch: it is in the map and none of its
\* tile references is in the range of a 16x16 (metatile-typed) animation
StripAnimated(key) ==
    /\ key \in DOMAIN metatile_composition
    /\ \A i \in 1..Len(all_anim_defs) :
          all_anim_defs[i][1].is_metatile =>
              \A ref \in HalfRefs(key, "bottom") \cup HalfRefs(key, "top") :
                  ~(all_anim_defs[i][1].base_tile_id <= ref[1]
                    /\ ref[1] < all_anim_defs[i][1].base_tile_id
                                + all_anim_defs[i][1].num_tiles)

\* C8: for strip animations a metatile animated only in its top half has no
\* timeline on its bottom-half GID, a metatile animated only in its bottom
\* half has none on its top-half GID, and two metatiles with identical base
\* images, one animated only in the bottom half and the other only in the
\* top half, have their timelines on different GIDs.
C8_HalvesIndependent ==
    pc = "tileset_done" =>
        /\ \A key \in DOMAIN metatile_composition :
           \A half \in {"bottom", "top"} :
              LET other == IF half = "top" THEN "bottom" ELSE "top"
              IN  (StripAnimated(key) /\ AnimatedHalf(key, half) /\ ~AnimatedHalf(key, other))
                  => \A j \in 1..Len(animations) : animations[j].id # HalfGid(key, other) - 1
        /\ \A k1, k2 \in DOMAIN metatile_composition :
              (/\ StripAnimated(k1) /\ StripAnimated(k2)
               /\ used_metatiles[k1] = used_metatiles[k2]
               /\ AnimatedHalf(k1, "bottom") /\ ~AnimatedHalf(k1, "top")
               /\ AnimatedHalf(k2, "top") /\ ~AnimatedHalf(k2, "bottom"))
              => HalfGid(k1, "bottom") # HalfGid(k2, "top")

\* C9: every timeline of a strip-animated half, generated or returned, has
\* exactly 8 entries, one per cycle step 0..7 in that order (the frames of
\* the steps occupy consecutive atlas slots behind the base images), each
\* with duration 200 ms.
C9_StripTimelineShape ==
    pc = "tileset_done" =>
        \A a \in Range(raw_animations) \cup Range(animations) :
            a.kind = "strip" =>
                /\ Len(a.animation) = 8
                /\ \A f \in 1..Len(a.animation) :
                      /\ a.animation[f].duration = 200
                      /\ a.animation[f].tileid = a.animation[1].tileid + (f - 1)
                      /\ a.animation[f].tileid >= current_tile_idx
                      /\ a.animation[f].tileid \in DOMAIN tileset_image

\* strip timelines built from a definition with another duration and a
\* 2-frame cycle, and from a definition with a frame_sequence of length 4
C9_Witness ==
    /\ pc = "tileset_done"
    /\ \E a \in Range(animations) : a.kind = "strip" /\ a.half = "bottom"
    /\ \E a \in Range(animations) : a.kind = "strip" /\ a.half = "top"
    /\ \E r \in frame_reads : r.anim_name = "water" /\ r.nframes = 4
    /\ \E r \in frame_reads : r.anim_name = "windy_water" /\ Len(r.frame_sequence) = 4
    /\ \E i \in 1..Len(all_anim_defs) : all_anim_defs[i][1].duration_ms # 200

\* C10: at every cycle step 0..7 and animated position the frame is
\* frame_sequence[step mod len] when a sequence is given, else
\* step mod (len(frames) div num_tiles), and 0 when that quotient or
\* num_tiles is 0; frames[frame * num_tiles + (tile_id - base)] is read
\* exactly when that index is inside the list.
C10_FrameSelection ==
    \A r \in frame_reads :
        LET frame == IF Len(r.frame_sequence) > 0
                     THEN r.frame_sequence[(r.frame_num % Len(r.frame_sequence)) + 1]
                     ELSE IF r.num_tiles = 0 THEN 0
                     ELSE IF r.nframes \div r.num_tiles = 0 THEN 0
                     ELSE r.frame_num % (r.nframes \div r.num_tiles)
        IN  /\ r.frame_num \in 0..7
            /\ r.actual_frame = frame
            /\ r.frame_tile_idx = frame * r.num_tiles + (r.tile_id - r.actual_base_tile_id)
            /\ r.read <=> (0 <= r.frame_tile_idx /\ r.frame_tile_idx < r.nframes)

\* a sequence that wraps and names a frame that does not exist (not read),
\* and a definition without a sequence
C10_Witness ==
    /\ pc = "tileset_done"
    /\ \E r \in frame_reads : Len(r.frame_sequence) = 3 /\ r.frame_num = 7 /\ r.read
    /\ \E r \in frame_reads : Len(r.frame_sequence) > 0 /\ ~r.read
    /\ \E r \in frame_reads : Len(r.frame_sequence) = 0 /\ r.read

\* the atlas slots behind the base images: the animation frames
FrameSlots == {s \in DOMAIN tileset_image : s >= current_tile_idx}

\* C11: animation frames go through the deduplicating allocator: no two
\* frame slots of the atlas hold the same image, and no frame slot holds an
\* image that a base slot already holds.
C11_FramesDeduplicated ==
    pc = "tileset_done" =>
        \A s \in FrameSlots :
        \A t \in DOMAIN tileset_image :
            s # t => tileset_image[s] # tileset_image[t]

\* the indexes of the timelines that are the first generated for their id
FirstOfId(anims) ==
    {i \in DOMAIN anims : \A h \in 1..(i - 1) : anims[h].id # anims[i].id}

\* C12: the returned list has at most one timeline per id; it is the list
\* of generated timelines restricted to the first one generated for each
\* id, in generation order.
C12_FirstTimelinePerId ==
    pc = "tileset_done" =>
        /\ \A i, j \in DOMAIN animations :
              animations[i].id = animations[j].id => i = j
        /\ \E firsts \in {SortedSeq(FirstOfId(raw_animations))} :
              animations = [k \in 1..Len(firsts) |-> raw_animations[firsts[k]]]

\* two different timelines were generated for one id, with a timeline for
\* another id generated in between or after, and one was discarded
C12_Witness ==
    /\ pc = "tileset_done"
    /\ Len(animations) >= 2
    /\ \E i, j \in DOMAIN raw_animations :
          /\ i < j
          /\ raw_animations[i].id = raw_animations[j].id
          /\ raw_animations[i].animation # raw_animations[j].animation
          /\ \E k \in DOMAIN animations : animations[k] = raw_animations[i]

\* the 16x16 animation definitions (indexes into all_anim_defs, which is
\* in collection order) whose tile range holds a tile of the metatile
MetatileTypedMatches(key) ==
    {i \in DOMAIN all_anim_defs :
        LET d == all_anim_defs[i][1]
            base == IF d.is_secondary THEN d.base_tile_id + 512 ELSE d.base_tile_id
        IN  /\ d.is_metatile
            /\ Len(d.frames) > 0
            /\ \E pos \in 1..NUM_TILES_PER_METATILE :
                  LET tile_id == metatile_composition[key][pos][1]
                  IN  /\ base <= tile_id /\ tile_id < base + d.num_tiles
                      /\ determine_tileset_for_tile(tile_id, key[2])[1] = all_anim_defs[i][2]}

\* the playback order of a 16x16 animation: frame_sequence when present,
\* else 0..N-1, without the indexes that name no frame
PlaybackOrder(d) ==
    SelectSeq(IF Len(d.frame_sequence) > 0 THEN d.frame_sequence
              ELSE [i \in 1..Len(d.frames) |-> i - 1],
              LAMBDA q : q >= 0 /\ q < Len(d.frames))

\* C13: a metatile matched by 16x16 animations gets the first of them in
\* collection order and nothing else: one timeline is generated for it, on
\* the GID of one of its halves; its entries follow the playback order of
\* that definition, every entry has that definition's duration_ms and names
\* the atlas slot of that definition's frame.
C13_FirstMetatileAnimationWins ==
    pc = "tileset_done" =>
        \A key \in DOMAIN metatile_composition :
            MetatileTypedMatches(key) # {} =>
                LET i0 == CHOOSE i \in MetatileTypedMatches(key) :
                              \A h \in MetatileTypedMatches(key) : i <= h
                    d == all_anim_defs[i0][1]
                    order == PlaybackOrder(d)
                    tl == {n \in DOMAIN raw_animations : raw_animations[n].key = key}
                IN  /\ Cardinality(tl) <= 1
                    /\ Len(order) > 0 => Cardinality(tl) = 1
                    /\ \A n \in tl :
                          LET a == raw_animations[n]
                              first == a.animation[1].tileid - order[1]
                          IN  /\ a.kind = "metatile"
                              /\ a.id + 1 \in {HalfGid(key, "bottom"), HalfGid(key, "top")}
                              /\ Len(a.animation) = Len(order)
                              /\ first >= current_tile_idx
                              /\ \A f \in 1..Len(order) :
                                    /\ a.animation[f].tileid = first + order[f]
                                    /\ a.animation[f].duration = d.duration_ms
                                    /\ tileset_image[first + order[f]] = d.frames[order[f] + 1]

\* a metatile in the range of two 16x16 animations, with its one timeline
C13_Witness ==
    /\ pc = "tileset_done"
    /\ \E key \in DOMAIN metatile_composition :
          /\ Cardinality(MetatileTypedMatches(key)) >= 2
          /\ \E n \in DOMAIN animations :
                animations[n].key = key /\ animations[n].kind = "metatile"

\* the atlas slots named by a layer cell, a border entry or a frame of a
\* returned timeline (a cell or border GID g names slot g - 1)
ReferencedSlots ==
    {g - 1 : g \in (Range(layer_data_bg3) \cup Range(layer_data_bg2) \cup Range(layer_data_bg1)
                    \cup {border_gids[c] : c \in DOMAIN border_gids}) \ {0}}
    \cup UNION {{animations[n].animation[f].tileid : f \in DOMAIN animations[n].animation}
                : n \in DOMAIN animations}

\* C14: every slot of the final atlas, base image or animation frame, is
\* referenced by a layer cell, a border entry or a frame of a timeline.
C14_NoUnreferencedSlot ==
    pc = "tileset_done" => DOMAIN tileset_image \subseteq ReferencedSlots

\* the number of complete 16-bit records in the file
RecordCount == Len(file_data) \div 2

\* record k (0-based) of the file, low byte first
RecordAt(k) == file_data[2 * k + 1] + 256 * file_data[2 * k + 2]

C16_OddLengthRejected ==
    (pc = "read_done" /\ Len(file_data) % 2 = 1) => read_out.status # "ok"

\* C17: when the number of records differs from the layout's width*height,
\* convert_map and convert_map_with_metatiles give the map up (None), and
\* what they go on with is never a grid of other dimensions.
C17_MismatchAborts ==
    (pc = "read_done" /\ read_op \in {"convert_map", "convert_map_with_metatiles"}) =>
        /\ RecordCount # layout_width * layout_height => read_out.status = "None"
        /\ read_out.status = "ok" =>
              read_out.width = layout_width /\ read_out.height = layout_height

\* C18: decoding loses nothing. For every 16-bit word w, as a map grid
\* entry metatile_id + collision * 2^10 + elevation * 2^12 = w with the
\* fields in 0..1023, 0..3, 0..15; as a tile reference
\* tile_id + flip_flags * 2^10 + palette_index * 2^12 = w with the same
\* ranges; and read_metatiles gives the tile_id of every reference that
\* read_metatiles_with_attributes gives.
C18_DecodingLossless ==
    pc = "decoded" =>
        \E w \in {RecordAt(0)} :
            /\ read_op = "map_entry" =>
                  /\ read_out.value[1] + read_out.value[2] * 1024
                        + read_out.value[3] * 4096 = w
                  /\ read_out.value[1] \in 0..1023
                  /\ read_out.value[2] \in 0..3
                  /\ read_out.value[3] \in 0..15
            /\ read_op = "tile_reference" =>
                  \E refs \in {read_out.value[1]}, ids \in {read_out.value[2]} :
                      /\ Len(refs) = 1
                      /\ refs[1][1] + refs[1][2] * 1024 + refs[1][3] * 4096 = w
                      /\ refs[1][1] \in 0..1023
                      /\ refs[1][2] \in 0..3
                      /\ refs[1][3] \in 0..15
                      /\ ids = [k \in 1..Len(refs) |-> refs[k][1]]

\* a word with all three fields set and a high byte, decoded as a map entry
C18_Witness ==
    /\ pc = "decoded"
    /\ read_op = "map_entry"
    /\ file_data[2] >= 128
    /\ read_out.value[1] > 255
    /\ read_out.value[2] = 2
    /\ read_out.value[3] > 8

\* C19: after the validation, with both maximum tile IDs known, the primary
\* set lies in 0..primary_max and the secondary set in 0..secondary_max, and
\* an ID that moved from the secondary to the primary set is below 512 and
\* valid for the primary bank.
C19_ValidatedSetsInRange ==
    (/\ pc = "validated"
     /\ validate_in.primary_max_tile # NoneVal
     /\ validate_in.secondary_max_tile # NoneVal) =>
        /\ validate_out[1].primary \subseteq 0..validate_in.primary_max_tile
        /\ validate_out[1].secondary \subseteq 0..validate_in.secondary_max_tile
        /\ \A tid \in validate_out[1].primary \ validate_in.used.primary :
              /\ tid \in validate_in.used.secondary
              /\ tid < 512
              /\ tid <= validate_in.primary_max_tile

\* C20: a second application of the validation changes neither set.
C20_ValidationIdempotent ==
    pc = "validated_twice" =>
        /\ validate_out[2].primary = validate_out[1].primary
        /\ validate_out[2].secondary = validate_out[1].secondary

\* C21: with an empty primary metatile table the conversions stop before
\* anything is allocated or recorded, and only then; an empty secondary
\* table or attribute table does not stop them, and a metatile without an
\* attribute entry is handled with layer type 0.
C21_PrimaryTableRequired ==
    /\ Len(primary_metatiles_with_attrs) = 0 =>
          /\ pc \in {"start", "tiles_aborted", "gid_aborted"}
          /\ next_gid = 1 /\ image_to_gid = EmptyDict /\ alloc_log = <<>>
          /\ metatile_to_gid = EmptyDict /\ used_gids = {}
          /\ tileset_image = EmptyDict /\ animations = <<>>
          /\ bg3_data = <<>> /\ used_primary_tiles = {} /\ used_secondary_tiles = {}
    /\ pc \in {"tiles_aborted", "gid_aborted"} => Len(primary_metatiles_with_attrs) = 0
    /\ GidStage =>
          \A key \in DOMAIN used_metatiles :
              LET attributes == IF key[2] = primary_tileset
                                THEN primary_attributes ELSE secondary_attributes
              IN  key[1] + 1 \notin DOMAIN attributes => key[3] = 0

\* the conversion of a map has stopped on an empty primary table although
\* the secondary table and the map are there
C21_Witness ==
    /\ pc = "gid_aborted"
    /\ Len(primary_metatiles_with_attrs) = 0
    /\ Len(secondary_metatiles_with_attrs) > 0
    /\ next_gid = 1

\* C22: _process_border_metatiles always returns: the step after the map's
\* metatiles leads to the border being done, whatever border.bin holds and
\* whatever fails on the way; next_gid does not decrease, and every border
\* GID is 0 or a GID of image_to_gid below the returned next_gid.
C22_BorderNeverAborts ==
    [][pc = "metatiles_done" =>
          /\ pc' = "border_done"
          /\ next_gid' >= next_gid
          /\ \A c \in DOMAIN border_gids' :
                \/ border_gids'[c] = 0
                \/ /\ border_gids'[c] < next_gid'
                   /\ \E b \in DOMAIN image_to_gid' : image_to_gid'[b] = border_gids'[c]]_vars

\* a border whose decoding failed after the first corners: some corners
\* have GIDs, one of them freshly allocated, the others are missing
C22_Witness ==
    /\ pc = "border_done"
    /\ DOMAIN border_gids # {}
    /\ "bottom_right" \notin DOMAIN border_gids
    /\ \E c \in DOMAIN border_gids : border_gids[c] > 0
    /\ \E n \in DOMAIN alloc_log : alloc_log[n].site = "border" /\ alloc_log[n].gid = next_gid - 1

C24_RemapReturnsBool ==
    pc = "remapped" =>
        LET map_file == call_in.map_file
            failure ==
                \/ ~map_file.loaded
                \/ map_file.tilesets = <<>>
                \/ BuildTilesetInfo(<<>>, map_file.tilesets, call_in.tile_mappings) = <<>>
                \/ \E k \in 1..Len(map_file.layers) :
                      /\ map_file.layers[k].type = "tilelayer"
                      /\ map_file.layers[k].data # <<>>
                      /\ "malformed" \in {map_file.layers[k].tileset_info.kind,
                                          map_file.layers[k].palette_info.kind}
        IN  /\ call_out.returned \in {"True", "False"}
            /\ call_out.returned = "False" <=> failure
            /\ call_out.returned = "False" => call_out.file = map_file

\* C25: MapReader.read_map_bin raises FileNotFoundError when the map.bin
\* path does not exist, and ValueError when width or height is outside
\* 1..1000 or the file's record count differs from width*height.
C25_ReadMapBinFailureKinds ==
    pc = "path_read" =>
        /\ call_in.path = "missing" => call_out.status = "FileNotFoundError"
        /\ (/\ call_in.path = "file"
            /\ \/ call_in.width \notin 1..max_size
               \/ call_in.height \notin 1..max_size
               \/ Len(call_in.data) \div 2 # call_in.width * call_in.height)
           => call_out.status = "ValueError"

\* C26: both unpack functions return exactly 8 entries for every
\* metatile_id and every table length; an out-of-range id yields 8 empty
\* entries; convert_metatile_to_tile_layers never reads past the end of a
\* half.
C26_UnpackEightEntries ==
    pc = "unpacked" =>
        LET out_of_range ==
                \/ call_in.metatile_id < 0
                \/ call_in.metatile_id * NUM_TILES_PER_METATILE >= Len(call_in.metatile_data)
        IN  /\ Len(call_out.tiles) = NUM_TILES_PER_METATILE
            /\ out_of_range =>
                  \A i \in 1..Len(call_out.tiles) :
                      call_out.tiles[i] = IF call_out.op = "unpack_metatile_data"
                                          THEN 0 ELSE <<0, 0, 0>>
            /\ call_out.status = "ok"

\* C27: the four tiles of the half of cell (x, y) lie, in the order
\* top-left, top-right, bottom-left, bottom-right, at layer index
\* (2y+dy)*(2*width)+(2x+dx); all four are inside the layer, and no
\* position of the layer is written by two cells (every tile of every cell
\* is still in the layer when the map is done).
C27_TileGridPlacement ==
    pc = "grid_done" =>
        LET width == call_in.width
            height == call_in.height
        IN  /\ \A dx \in 0..1, dy \in 0..1 :
                  LET idx == (2 * call_in.y + dy) * (2 * width) + (2 * call_in.x + dx)
                  IN  /\ 0 <= idx /\ idx < Len(call_out)
                      /\ call_out[idx + 1] = GridTile(call_in.x, call_in.y, dy * 2 + dx, width)
            /\ Len(call_out) = 4 * width * height
            /\ \A x \in 0..(width - 1), y \in 0..(height - 1), i \in 0..3 :
                  \E k \in 1..Len(call_out) : call_out[k] = GridTile(x, y, i, width)

\* the last cell of a map that is wider than high
C27_Witness ==
    /\ pc = "grid_done"
    /\ call_in.width > call_in.height
    /\ call_in.height > 1
    /\ call_in.x = call_in.width - 1
    /\ call_in.y = call_in.height - 1
    /\ call_out[Len(call_out)] = 4 * call_in.width * call_in.height

\* C28: extract_tiles_from_frame gives, for a readable frame that is not
\* 16x16, exactly num_tiles 8x8 tiles, a slot outside the frame being a
\* transparent tile, in every layout branch; a 16x16 frame gives one tile;
\* an unreadable frame gives the empty list instead of an exception; the
\* frame list of a strip animation has a multiple of num_tiles entries.
C28_FrameTileCount ==
    pc = "frames_done" =>
        LET frame == call_in.frame_paths[1]
            num_tiles == call_in.num_tiles
        IN  /\ call_out.op = "extract_tiles_from_frame" =>
                  /\ (frame.readable /\ ~(frame.width = 16 /\ frame.height = 16)) =>
                        /\ Len(call_out.frames) = num_tiles
                        /\ \A i \in 1..Len(call_out.frames) :
                              LET tile == call_out.frames[i]
                              IN  \/ tile = TransparentTile
                                  \/ /\ tile.kind = "crop"
                                     /\ tile.x < frame.width /\ tile.y < frame.height
                                     /\ tile.x % actual_tile_size = 0
                                     /\ tile.y % actual_tile_size = 0
                  /\ (frame.readable /\ frame.width = 16 /\ frame.height = 16) =>
                        call_out.frames = <<WholeFrame>>
                  /\ ~frame.readable => call_out.frames = <<>>
            /\ (call_out.op = "extract_all_animation_tiles" /\ ~call_out.is_metatile) =>
                  \E k \in 0..Len(call_in.frame_paths) :
                      Len(call_out.frames) = k * num_tiles

\* the fallback branch: a frame with fewer tiles than num_tiles, filled up
\* with transparent tiles
C28_Witness ==
    /\ pc = "frames_done"
    /\ call_out.op = "extract_tiles_from_frame"
    /\ call_in.frame_paths[1].width = 24
    /\ call_in.frame_paths[1].height = 8
    /\ call_in.num_tiles = 5
    /\ Len(call_out.frames) = 5
    /\ call_out.frames[3].kind = "crop"
    /\ call_out.frames[4] = TransparentTile

\* C29: after the validation and repair step of convert_map, the tile ids
\* occurring in the palette-aware used-tile set of a bank are exactly the
\* ids of the plain used-tile set handed to the tileset builder for that
\* bank.
C29_PaletteSetsConsistent ==
    pc = "tiles_done" =>
        /\ {t[1] : t \in RecordedUsedTiles.primary_pal} = RecordedUsedTiles.primary
        /\ {t[1] : t \in RecordedUsedTiles.secondary_pal} = RecordedUsedTiles.secondary

\* the tile references convert_map places at index idx of layer l (1 bg3,
\* 2 bg2, 3 bg1), each with the tileset of its metatile:
\* <<tile_id, palette_index, tileset_name>>
PlacedRefs(l, idx) ==
    LET width == Len(map_entries)
        Dict(x) ==
            LET owner == TilesetOfMetatile(extract_metatile_id(map_entries[x + 1]))
                attributes == IF owner[1] = primary_tileset
                              THEN primary_attributes ELSE secondary_attributes
            IN  CellTileLayers(owner[2], owner[1], AttributeOf(attributes, owner[2]), x, 0)[l]
    IN  UNION {{<<Dict(x)[p][1], Dict(x)[p][2],
                  TilesetOfMetatile(extract_metatile_id(map_entries[x + 1]))[1]>> :
                    p \in {q \in DOMAIN Dict(x) : q[2] * (2 * width) + q[1] = idx}} :
               x \in 0..(width - 1)}

\* a mapping that knows every (tile, palette) a bank recorded, new ids from 1
MappingOf(recorded) == [k \in recorded |-> k[1] + 1]

\* the tileset_info of a map with both tilesets, each with its mapping
BothTilesetsInfo ==
    BuildTilesetInfo(<<>>,
                     <<[stem |-> primary_tileset, firstgid |-> 1],
                       [stem |-> secondary_tileset, firstgid |-> 1025]>>,
                     <<[key |-> primary_tileset,
                        mapping |-> MappingOf(used_primary_tiles_with_palettes)],
                       [key |-> secondary_tileset,
                        mapping |-> MappingOf(used_secondary_tiles_with_palettes)]>>)

\* C30: after convert_map and remap_map_tiles, 0 in a layer means that no
\* tile is placed: a position whose metatile holds a non-empty tile
\* reference (also tile 512 of a secondary metatile) ends non-zero, and a
\* position convert_map wrote as 0 is 0 after remapping.
C30_ZeroMeansEmpty ==
    pc = "tiles_done" =>
        \A l \in 1..3 :
            LET data == <<bg3_data, bg2_data, bg1_data>>[l]
            IN  \A idx \in 0..(Len(data) - 1) :
                    /\ \A r \in PlacedRefs(l, idx) :
                          RemapTile(data[idx + 1],
                                    determine_tileset_for_tile(r[1], r[3])[1],
                                    r[2], BothTilesetsInfo) # 0
                    /\ data[idx + 1] = 0 =>
                          \A name \in {"", primary_tileset, secondary_tileset} :
                              RemapTile(data[idx + 1], name, 0, BothTilesetsInfo) = 0

=============================================================================
